---- MODULE Spec2Model ----
(***************************************************************************)
(* A model of the uniweb runtime: the content tree (Website, Page, Block), *)
(* the layout two-phase protocol, the block renderer with its entity and   *)
(* runtime data fetches, and the client data fetcher.                      *)
(***************************************************************************)
EXTENDS Integers, Sequences, FiniteSets, TLC

VARIABLES
    website,     \* the Website object uniweb.activeWebsite refers to
    lastRoute,   \* argument of the last setActivePage call, NoCall after construction
    before,      \* the Website as it was before the last setActivePage call
    websiteData, \* the site configuration the Website was constructed from
    uniweb,      \* the singleton: the identity of its active Website, its
                 \* foundation, routing components and icon resolver
    dataStore,   \* the active Website's dataStore: whether a fetcher is registered
    previous,    \* the Website object that the last rebuild replaced
    view,        \* what the last PageRenderer render returned
    call,        \* the arguments of one call of a pure function of the data layer
    ret,         \* what that call returned, once made
    page,        \* the page being rendered: its layout areas and child Sections
    blocks,      \* the Block objects of the page, by id
    laidOut,     \* whether Layout has run for the page
    lastOp,      \* the last operation on a Block
    renderer,    \* which BlockRenderer the build has: "entity" or "runtime"
    fetchOf,     \* each Section's cache key and whether it has a fetch descriptor
    comp,        \* each Section's mounted BlockRenderer: its React state
    dataLoading, \* block.dataLoading of each Section
    flights,     \* the fetch calls whose promise has not settled yet
    retrievals,  \* the underlying retrievals in flight, counted by key
    store,       \* the EntityStore: the cache entry of each key
    lastSettle,  \* the network answer and the key of the last settled retrieval
    shown,       \* each renderer's last render: the Section whose fetch produced
                 \* the fetched data it merged into the content, 0 for none
    setup,       \* what setupUniweb did: its steps in order, the keys it stored
    props,       \* the arguments of one call of a function of prepare-props.js
    prepared,    \* what that call returned, once made
    localized,   \* one call of Website.localize: its arguments and what it returned
    tree,        \* a Website's Pages and the Block objects they were built with
    boot,        \* one call of initRuntime: its inputs, where it stands, what it did
    analytics,   \* an Analytics object, its batches in flight and what the endpoint got
    plugin       \* the foundation plugin of the dev server: its closure variables

webVars == <<website, lastRoute, before, websiteData, uniweb, dataStore, previous, view>>
moreVars == <<localized, tree, boot, analytics, plugin>>
pureVars == <<call, ret, props, prepared, moreVars>>

renderVars == <<page, blocks, laidOut, lastOp>>

fetchVars == <<renderer, fetchOf, comp, dataLoading, flights, retrievals, store, lastSettle,
               shown, setup>>

vars == <<website, lastRoute, before, websiteData, uniweb, dataStore, previous, view, call, ret, page, blocks, laidOut, lastOp,
          renderer, fetchOf, comp, dataLoading, flights, retrievals, store, lastSettle,
          shown, setup, props, prepared, localized, tree, boot, analytics,
          plugin>>

(***************************************************************************)
(* Bounds                                                                  *)
(***************************************************************************)
MaxPages == 3
MaxArr == 1
MaxMounts == 2
MaxRebuilds == 2
MaxEvents == 3

(***************************************************************************)
(* Website                                                                 *)
(***************************************************************************)
HeaderRoute == "/@header"
FooterRoute == "/@footer"

\* Routes a page of the site configuration may carry.
Routes == {"/", "/index", "/about", HeaderRoute, FooterRoute}

\* Routes a caller may pass to setActivePage: "/missing" matches no page.
CallRoutes == Routes \cup {"/missing"}

NoCall == "<none>"

\* A filter that keeps everything.
KeepAllRoutes(s, keep) == s

\* Array.prototype.filter
RECURSIVE SelectRoutes(_, _)
SelectRoutes(s, keep) ==
    IF s = <<>> THEN <<>>
    ELSE IF Head(s) \in keep THEN <<Head(s)>> \o SelectRoutes(Tail(s), keep)
         ELSE SelectRoutes(Tail(s), keep)

\* A find that returns the last match.
FindLastPage(pages, accepted) ==
    IF \E i \in 1..Len(pages) : pages[i].route \in accepted
    THEN CHOOSE i \in 1..Len(pages) :
            /\ pages[i].route \in accepted
            /\ \A j \in (i + 1)..Len(pages) : pages[j].route \notin accepted
    ELSE 0

\* Array.prototype.find over pages, by a set of accepted routes: the index of
\* the first match, 0 for undefined.
FindPage(pages, accepted) ==
    IF \E i \in 1..Len(pages) : pages[i].route \in accepted
    THEN CHOOSE i \in 1..Len(pages) :
            /\ pages[i].route \in accepted
            /\ \A j \in 1..(i - 1) : pages[j].route \notin accepted
    ELSE 0

\* The routes the constructor accepts for the default active page.
HomeRoutes == {"/", "/index"}

\* new Page(page, index, headerPage, footerPage): id is the index in the
\* filtered list (0-based in the code).
NewPage(route, index) == [id |-> index - 1, route |-> route]

\* A constructor that lost its "|| this.pages[0]" fallback.
NewWebsiteNoFallback(pageList) ==
    LET regular == SelectRoutes(pageList, Routes \ {HeaderRoute, FooterRoute})
        pages   == [i \in 1..Len(regular) |-> NewPage(regular[i], i)]
    IN  [ headerPage |-> \E i \in 1..Len(pageList) : pageList[i] = HeaderRoute,
          footerPage |-> \E i \in 1..Len(pageList) : pageList[i] = FooterRoute,
          pages      |-> pages,
          activePage |-> FindPage(pages, HomeRoutes),
          pageRoutes |-> regular,
          activeLang |-> "en" ]

\* new Website({pages}): pageList is the sequence of the routes of config.pages.
\* activePage is a reference to a Page: the model keeps its index in pages,
\* 0 for undefined.
NewWebsite(pageList) ==
    LET regular == SelectRoutes(pageList, Routes \ {HeaderRoute, FooterRoute})
        pages   == [i \in 1..Len(regular) |-> NewPage(regular[i], i)]
        home    == FindPage(pages, HomeRoutes)
    IN  [ headerPage |-> \E i \in 1..Len(pageList) : pageList[i] = HeaderRoute,
          footerPage |-> \E i \in 1..Len(pageList) : pageList[i] = FooterRoute,
          pages      |-> pages,
          activePage |-> IF home # 0 THEN home
                         ELSE IF Len(pages) > 0 THEN 1 ELSE 0,
          pageRoutes |-> regular,
          activeLang |-> "en" ]

\* Website.getPage(route)
GetPage(w, route) == FindPage(w.pages, {route})

\* A setActivePage that lost its "if (page)" guard.
SetActivePageUnguarded(w, route) == [w EXCEPT !.activePage = GetPage(w, route)]

\* Website.setActivePage(route)
SetActivePage(w, route) ==
    LET found == GetPage(w, route)
    IN  IF found # 0 THEN [w EXCEPT !.activePage = found] ELSE w

\* The site configuration: pages is absent, or a list of pages (their routes);
\* edits counts the content edits that produced it.
SiteConfig(given, pageList, edits) == [given |-> given, pages |-> pageList, edits |-> edits]

\* const { pages = [] } = websiteData
PagesOf(data) == IF data.given THEN data.pages ELSE <<>>

\* The singleton after setupUniweb and registerFoundation; activeWebsite is
\* the identity of the Website object it refers to.
NewUniweb ==
    [activeWebsite |-> 1, foundation |-> "foundation", foundationConfig |-> "capabilities",
     routingComponents |-> "react-router", iconResolver |-> "resolver"]

\* A Website object set aside: its identity (0 for none), its fields, and
\* whether its dataStore has a fetcher.
NoPrevious ==
    [id |-> 0, fetcher |-> FALSE,
     site |-> [headerPage |-> FALSE, footerPage |-> FALSE, pages |-> <<>>,
               activePage |-> 0, pageRoutes |-> <<>>, activeLang |-> "en"]]

\* A rebuild that edits the active Website where it is, page list first.
RebuildWebsiteInPlace(u, w, ds, configData) ==
    [uniweb |-> u,
     website |-> [w EXCEPT !.pages = NewWebsite(PagesOf(configData)).pages],
     dataStore |-> ds,
     previous |-> [id |-> u.activeWebsite, site |-> w, fetcher |-> ds.fetcher]]

\* rebuildWebsite(configData) on the singleton u whose active Website is w
\* with dataStore ds: the singleton, the new active Website and its
\* dataStore, and the object that was replaced, as the call leaves them.
RebuildWebsite(u, w, ds, configData) ==
    [uniweb |-> [u EXCEPT !.activeWebsite = @ + 1],
     website |-> NewWebsite(PagesOf(configData)),
     dataStore |-> [fetcher |-> TRUE],
     previous |-> [id |-> u.activeWebsite, site |-> w, fetcher |-> ds.fetcher]]

\* What PageRenderer returns for a path: the Layout of the page found, or the
\* not-found view (the Website has no getNotFoundPage). path is the
\* location.pathname of the render.
NoView == [kind |-> "none", page |-> 0, path |-> NoCall]

\* A PageRenderer without its "if (!page)" branch: Layout gets no page.
PageRendererViewUnguarded(w, path) ==
    IF GetPage(w, path) # 0
    THEN [kind |-> "layout", page |-> GetPage(w, path), path |-> path]
    ELSE [kind |-> "error", page |-> 0, path |-> path]

PageRendererView(w, path) ==
    IF GetPage(w, path) # 0
    THEN [kind |-> "layout", page |-> GetPage(w, path), path |-> path]
    ELSE [kind |-> "notFound", page |-> 0, path |-> path]

\* The languages of the model and the text an entry of each holds.
Langs == {"en", "fr", "de"}
TextOf == [l \in Langs |-> IF l = "en" THEN "Hello" ELSE IF l = "fr" THEN "Bonjour" ELSE "Hallo"]

\* Website.constructor, lines 29-35: the language fields from config, where
\* defaultLanguage is "" when absent and languages (the values of its
\* entries) counts only when hasLanguages.
WebsiteLangs(config) ==
    [activeLang |-> IF config.defaultLanguage # "" THEN config.defaultLanguage ELSE "en",
     langs      |-> IF config.hasLanguages THEN config.languages ELSE <<"en", "fr">>]

\* A localize that returns every string as it is.
LocalizeStringsAsIs(w, val, defaultVal, givenLang, fallbackDefaultLangVal) ==
    LET lang == IF givenLang # "" THEN givenLang ELSE w.activeLang
        defaultLang == IF Len(w.langs) > 0 THEN w.langs[1] ELSE "en"
        entry(l) == IF val.m[l] \in {"<undefined>", ""} THEN "" ELSE val.m[l]
    IN  IF val.kind = "object"
        THEN IF entry(lang) # "" THEN entry(lang)
             ELSE IF fallbackDefaultLangVal /\ entry(defaultLang) # ""
                  THEN entry(defaultLang) ELSE defaultVal
        ELSE IF val.kind \in {"string", "json"} THEN val.s
        ELSE defaultVal

\* Website.localize(val, defaultVal, givenLang, fallbackDefaultLangVal) on a
\* Website with the language fields w. val is an object mapping languages to
\* entries (kind "object"; "<undefined>" for a missing entry), the JSON
\* encoding of one (kind "json"), another string s (kind "string"), or a
\* value of another type. JSON.parse is modelled on the strings of the model:
\* the encoding of a mapping gives the mapping, "\"Hello\"" gives "Hello",
\* and the other strings that start with { or " make it throw.
Localize(w, val, defaultVal, givenLang, fallbackDefaultLangVal) ==
    LET lang == IF givenLang # "" THEN givenLang ELSE w.activeLang
        defaultLang == IF Len(w.langs) > 0 THEN w.langs[1] ELSE "en"
        entry(l) == IF val.m[l] \in {"<undefined>", ""} THEN "" ELSE val.m[l]
        picked == IF entry(lang) # "" THEN entry(lang)
                  ELSE IF fallbackDefaultLangVal /\ entry(defaultLang) # ""
                       THEN entry(defaultLang) ELSE defaultVal
    IN  IF val.kind \in {"object", "json"} THEN picked
        ELSE IF val.kind = "string"
             THEN IF val.s = "\"Hello\"" THEN "Hello" ELSE val.s
        ELSE defaultVal

(***************************************************************************)
(* JavaScript values of the data layer                                     *)
(***************************************************************************)
\* Keys of the objects that fetched data may hold, and the items an array or
\* an object field may hold.
InnerKeys == {"x", "y"}
Items == {1, 2}

\* An object is a function from InnerKeys to its field's item, 0 for a field
\* it does not have.
EmptyObj == [k \in InnerKeys |-> 0]

\* A value: its type tag t, its elements a when an array, its fields o when an
\* object. "falsy" stands for a scalar that tests false ('', 0, false),
\* "scalar" for one that tests true.
Val(t, a, o) == [t |-> t, a |-> a, o |-> o]
Undefined == Val("undefined", <<>>, EmptyObj)
Null == Val("null", <<>>, EmptyObj)
Falsy == Val("falsy", <<>>, EmptyObj)
Scalar == Val("scalar", <<>>, EmptyObj)
Arr(a) == Val("array", a, EmptyObj)
Obj(o) == Val("object", <<>>, o)

Arrays == {Arr(a) : a \in UNION {[1..n -> Items] : n \in 0..MaxArr}}
Objects == {Obj(o) : o \in [InnerKeys -> {0} \cup Items]}

\* What a JSON document can hold, and every value.
JsonValues == {Null, Falsy, Scalar} \cup Arrays \cup Objects
Values == {Undefined} \cup JsonValues

\* if (v)
Truthy(v) == v.t \notin {"undefined", "null", "falsy"}

\* Array.isArray(v)
IsArray(v) == v.t = "array"

\* typeof v === 'object' && v !== null && !Array.isArray(v)
IsPlainObject(v) == v.t = "object"

\* Keys of a content data map, and the schema keys a fetch descriptor may
\* name ("" is a missing schema).
DataKeys == {"team", "news"}
Schemas == DataKeys \cup {""}

\* A data map (content.data): present is FALSE when the map itself is
\* undefined; m gives each key's value, Undefined for a key it does not have.
NoKeys == [k \in DataKeys |-> Undefined]
NoData == [present |-> FALSE, m |-> NoKeys]
DataMap(m) == [present |-> TRUE, m |-> m]
DataMaps == {DataMap(m) : m \in [DataKeys -> Values]} \cup {NoData}

(***************************************************************************)
(* data-fetcher-client.js                                                  *)
(***************************************************************************)
\* { ...existing, ...fetchedData }
ShallowMerge(existing, fetched) ==
    [k \in InnerKeys |-> IF fetched[k] # 0 THEN fetched[k] ELSE existing[k]]

\* A merge whose spread order is reversed: existing fields win.
MergeValueExistingWins(existing, fetched) ==
    IF IsArray(existing) /\ IsArray(fetched)
    THEN Arr(existing.a \o fetched.a)
    ELSE IF IsPlainObject(existing) /\ IsPlainObject(fetched)
         THEN Obj(ShallowMerge(fetched.o, existing.o))
         ELSE fetched

\* The merge-mode branch of mergeIntoData: what is stored for an existing
\* value and a fetched one.
MergeValue(existing, fetched) ==
    IF IsArray(existing) /\ IsArray(fetched)
    THEN Arr(existing.a \o fetched.a)
    ELSE IF IsPlainObject(existing) /\ IsPlainObject(fetched)
         THEN Obj(ShallowMerge(existing.o, fetched.o))
         ELSE fetched

\* mergeIntoData(currentData, fetchedData, schema, merge)
MergeIntoData(currentData, fetchedData, schema, merge) ==
    IF fetchedData.t \in {"null", "undefined"} \/ schema = ""
    THEN currentData
    ELSE LET result   == IF currentData.present THEN currentData.m ELSE NoKeys
             existing == result[schema]
         IN  DataMap([result EXCEPT ![schema] =
                 IF merge /\ existing.t # "undefined"
                 THEN MergeValue(existing, fetchedData)
                 ELSE fetchedData])

(***************************************************************************)
(* data-fetcher-client.js: executeFetchClient                              *)
(***************************************************************************)
\* A fetch descriptor. given is FALSE for a null or undefined config; path
\* and url are "" when missing; transform is the dot path split in its parts,
\* <<>> when missing.
Paths == {"", "/data/team.json"}
Urls == {"", "https://api.example/team"}
Transforms == {<<>>, <<"x">>, <<"x", "y">>}
NoConfig == [given |-> FALSE, path |-> "", url |-> "", transform |-> <<>>]
Configs == [given : {TRUE}, path : Paths, url : Urls, transform : Transforms]

\* What the network answers to fetch(fetchUrl). network is "reject" when the
\* fetch promise rejects; ok is response.ok; json says whether the content
\* type includes application/json; body is the body: "readError" when reading
\* it rejects, "json" a valid JSON text of value v, "text" a text that is no
\* JSON (v is Falsy for the empty text, Scalar otherwise).
Bodies == [kind : {"readError"}, v : {Undefined}]
          \cup [kind : {"json"}, v : JsonValues]
          \cup [kind : {"text"}, v : {Falsy, Scalar}]
Responses == [network : {"ok", "reject"}, ok : BOOLEAN, json : BOOLEAN, body : Bodies]

\* current[part] for the values of the model: a field of an object, undefined
\* for anything else.
Member(v, part) ==
    IF v.t = "object" /\ v.o[part] # 0 THEN Scalar ELSE Undefined

\* The loop of getNestedValue over the parts of the path.
RECURSIVE Walk(_, _)
Walk(current, parts) ==
    IF parts = <<>> THEN current
    ELSE IF current.t \in {"null", "undefined"} THEN Undefined
         ELSE Walk(Member(current, Head(parts)), Tail(parts))

\* getNestedValue(obj, path)
GetNestedValue(obj, path) ==
    IF ~Truthy(obj) \/ path = <<>> THEN obj ELSE Walk(obj, path)

\* A completion of a block of code: a returned result or a thrown error; and
\* a settled promise: resolved with a result or rejected.
Return(data, hasError, error) ==
    [c |-> "return", data |-> data, hasError |-> hasError, error |-> error]
Throw(error) ==
    [c |-> "throw", data |-> Undefined, hasError |-> TRUE, error |-> error]
Resolved(r) ==
    [settled |-> "resolved", data |-> r.data, hasError |-> r.hasError, error |-> r.error]
Rejected(error) ==
    [settled |-> "rejected", data |-> Undefined, hasError |-> TRUE, error |-> error]

\* data ?? []
OrEmptyArray(data) == IF data.t \in {"null", "undefined"} THEN Arr(<<>>) ELSE data

\* A try block that takes a response that is not OK for a success.
TryFetchIgnoringStatus(config, resp) ==
    LET fetchUrl == IF config.path # "" THEN config.path ELSE config.url
        parsed   == resp.body.v
        data     == IF config.transform # <<>> /\ Truthy(parsed)
                    THEN GetNestedValue(parsed, config.transform)
                    ELSE parsed
    IN  IF fetchUrl = "" THEN Return(Arr(<<>>), TRUE, "No path or url specified")
        ELSE IF resp.network = "reject" THEN Throw("Failed to fetch")
        ELSE IF resp.body.kind = "readError" THEN Throw("body read failed")
        ELSE IF resp.json /\ resp.body.kind = "text" THEN Throw("Unexpected token")
        ELSE Return(OrEmptyArray(data), FALSE, "")

\* The try block of executeFetchClient.
TryFetch(config, resp) ==
    LET fetchUrl == IF config.path # "" THEN config.path ELSE config.url
        \* response.json(), or response.text() then JSON.parse with the text
        \* itself as the fallback
        parsed   == resp.body.v
        data     == IF config.transform # <<>> /\ Truthy(parsed)
                    THEN GetNestedValue(parsed, config.transform)
                    ELSE parsed
    IN  IF fetchUrl = "" THEN Return(Arr(<<>>), TRUE, "No path or url specified")
        ELSE IF resp.network = "reject" THEN Throw("Failed to fetch")
        ELSE IF ~resp.ok THEN Throw("HTTP status")
        ELSE IF resp.body.kind = "readError" THEN Throw("body read failed")
        ELSE IF resp.json /\ resp.body.kind = "text" THEN Throw("Unexpected token")
        ELSE Return(OrEmptyArray(data), FALSE, "")

\* A catch block that rethrows.
CatchFetchRethrow(completion) ==
    IF completion.c = "throw"
    THEN Rejected(completion.error)
    ELSE Resolved(completion)

\* The catch block of executeFetchClient: a thrown error becomes the result
\* { data: [], error: error.message }.
CatchFetch(completion) ==
    IF completion.c = "throw"
    THEN Resolved(Return(Arr(<<>>), TRUE, completion.error))
    ELSE Resolved(completion)

\* executeFetchClient(config), with resp the network's answer.
ExecuteFetchClient(config, resp) ==
    IF ~config.given
    THEN Resolved(Return(Null, FALSE, ""))
    ELSE CatchFetch(TryFetch(config, resp))

(***************************************************************************)
(* BlockRenderer: merging entity data into content.data                    *)
(***************************************************************************)
\* An entity merge that assigns every key of entityData.
MergeEntityDataOverwrite(contentData, entityData) ==
    IF ~entityData.present
    THEN contentData
    ELSE LET merged == IF contentData.present THEN contentData.m ELSE NoKeys
         IN  DataMap([k \in DataKeys |->
                 IF entityData.m[k].t # "undefined" THEN entityData.m[k]
                 ELSE merged[k]])

\* BlockRenderer (entity variant): if (entityData) { merged = {...content.data};
\* for each key of entityData: if (merged[key] === undefined) merged[key] = ... }
\* entityData is the resolved or the asynchronously fetched map, NoData when null.
MergeEntityData(contentData, entityData) ==
    IF ~entityData.present
    THEN contentData
    ELSE LET merged == IF contentData.present THEN contentData.m ELSE NoKeys
         IN  DataMap([k \in DataKeys |->
                 IF merged[k].t = "undefined" THEN entityData.m[k]
                 ELSE merged[k]])

(***************************************************************************)
(* Block: component resolution and local state (core/uniweb.js)            *)
(***************************************************************************)
NoComponent == "null"
NullState == "null"
NoHook == "<no hook>"
NoArg == "undefined"

\* The components of the foundation: blockDefaults is the state of
\* Component.blockDefaults ("none" when the component has no blockDefaults),
\* blockState is Component.blockState, and hookArgs are the initial states the
\* component passes to block.useBlockState when it renders ({} when it does
\* not use the hook).
Foundation ==
    [ Hero |-> [blockDefaults |-> "d1", blockState |-> NullState, hookArgs |-> {NoArg}],
      Card |-> [blockDefaults |-> "none", blockState |-> "d2", hookArgs |-> {}],
      Grid |-> [blockDefaults |-> "none", blockState |-> NullState, hookArgs |-> {"s1", "s2"}] ]

\* globalThis.uniweb.getComponent(name)
GetComponent(name) == IF name \in DOMAIN Foundation THEN name ELSE NoComponent

\* defaults = Component.blockDefaults || { state: Component.blockState };
\* defaults.state ? { ...defaults.state } : null
DeclaredState(component) ==
    LET c == Foundation[component]
        state == IF c.blockDefaults # "none" THEN c.blockDefaults ELSE c.blockState
    IN  state

\* new Block(blockData, id): the fields of a Block the renderer changes.
\* hook is the initial state the installed resetStateHook resets the React
\* state to, react the React state of the mounted component; initCalled and
\* rendered record that initComponent was called and that a render began;
\* view is what the last render of the Section returned ("none" before it):
\* the "placeholder" of BlockRenderer, the "component", or "error" when the
\* render or initComponent threw.
NewBlock(component) ==
    [ component |-> component, Component |-> NoComponent,
      startState |-> NullState, state |-> NullState,
      hook |-> NoHook, react |-> NullState,
      initCalled |-> FALSE, rendered |-> FALSE, view |-> "none" ]

\* Block.initState()
InitState(b) ==
    [b EXCEPT !.state = b.startState,
              !.react = IF b.hook # NoHook THEN b.hook ELSE b.react]

\* An initComponent without its "if (!this.Component)" return: reading
\* blockDefaults of undefined throws.
InitComponentUnguarded(b) ==
    IF b.Component # NoComponent
    THEN [b EXCEPT !.initCalled = TRUE]
    ELSE LET found == GetComponent(b.component)
         IN  IF found = NoComponent
             THEN [b EXCEPT !.initCalled = TRUE, !.view = "error"]
             ELSE [b EXCEPT !.initCalled = TRUE, !.Component = found,
                            !.startState = DeclaredState(found),
                            !.state = DeclaredState(found),
                            !.react = IF b.hook # NoHook THEN b.hook ELSE b.react]

\* Block.initComponent()
InitComponent(b) ==
    IF b.Component # NoComponent
    THEN [b EXCEPT !.initCalled = TRUE]
    ELSE LET found == GetComponent(b.component)
         IN  IF found = NoComponent
             THEN [b EXCEPT !.initCalled = TRUE]
             ELSE InitState([b EXCEPT !.initCalled = TRUE, !.Component = found,
                                      !.startState = DeclaredState(found)])

\* A useBlockState that lost its "this.startState === null" test.
UseBlockStateAlwaysCapture(b, arg) ==
    LET capture == arg # NoArg
        init    == IF capture THEN arg ELSE b.startState
    IN  [b EXCEPT !.startState = init,
                  !.state = IF capture THEN arg ELSE b.state,
                  !.hook = init,
                  !.react = IF b.hook = NoHook THEN init ELSE b.react]

\* Block.useBlockState(useState, initState): React's useState takes the
\* initial state on the first render only.
UseBlockState(b, arg) ==
    LET capture == arg # NoArg /\ b.startState = NullState
        init    == IF capture THEN arg ELSE b.startState
    IN  [b EXCEPT !.startState = init,
                  !.state = IF capture THEN arg ELSE b.state,
                  !.hook = init,
                  !.react = IF b.hook = NoHook THEN init ELSE b.react]

\* The setter useBlockState returns: setState((this.state = newState))
SetBlockState(b, newState) == [b EXCEPT !.state = newState, !.react = newState]

(***************************************************************************)
(* The Block objects of the content tree (Website, Page and Block          *)
(* constructors)                                                           *)
(***************************************************************************)
\* Objects are kept in a heap, a sequence of Blocks: a reference is an index
\* into it (0 for null), and each "new Block" appends one. A section of the
\* content is given by its subsections, a sequence of sections.
RECURSIVE BuildBlock(_, _, _)
RECURSIVE BuildBlocksByPosition(_, _, _, _, _)
RECURSIVE BuildBlocks(_, _, _, _, _)

\* A map that numbers the Blocks by their position alone.
BuildBlocksByPosition(list, i, prefix, heap, refs) ==
    IF i > Len(list) THEN [heap |-> heap, refs |-> refs]
    ELSE LET b == BuildBlock(list[i], ToString(i - 1), heap)
         IN  BuildBlocksByPosition(list, i + 1, prefix, b.heap, Append(refs, b.ref))

\* list.map((block, i) => new Block(block, `${prefix}${i}`)), from the entry
\* i on: prefix is `${id}_` for the subsections of the Block id
\* (uniweb.js:139-141) and empty for the body of a Page (part_002:33), whose
\* ids are the numbers 0, 1, ...
BuildBlocks(list, i, prefix, heap, refs) ==
    IF i > Len(list) THEN [heap |-> heap, refs |-> refs]
    ELSE LET b == BuildBlock(list[i], prefix \o ToString(i - 1), heap)
         IN  BuildBlocks(list, i + 1, prefix, b.heap, Append(refs, b.ref))

\* new Block(blockData, id): the object, then its child Blocks, built in the
\* constructor; state is the Block's state, null after construction.
BuildBlock(subsections, id, heap) ==
    LET self  == Len(heap) + 1
        built == BuildBlocks(subsections, 1, id \o "_",
                             Append(heap, [id |-> id, childBlocks |-> <<>>,
                                           state |-> NullState]),
                             <<>>)
    IN  [heap |-> [built.heap EXCEPT ![self].childBlocks = built.refs], ref |-> self]

\* Page.buildPageBlocks(body, header, footer), called by the Page
\* constructor with the sections of the page and the first section of the
\* header and footer pages (given is FALSE when there is none).
BuildPageBlocks(body, header, footer, heap) ==
    LET h == IF header.given THEN BuildBlock(header.sub, "header", heap)
             ELSE [heap |-> heap, ref |-> 0]
        b == BuildBlocks(body, 1, "", h.heap, <<>>)
        f == IF footer.given THEN BuildBlock(footer.sub, "footer", b.heap)
             ELSE [heap |-> b.heap, ref |-> 0]
    IN  [heap |-> f.heap, page |-> [header |-> h.ref, body |-> b.refs, footer |-> f.ref]]

\* new Website(content), lines 17-22: a Page for each regular page, in order,
\* each given the header and footer pages. The result keeps the content.
RECURSIVE BuildPages(_, _, _, _)
BuildPages(content, i, heap, pages) ==
    IF i > Len(content.pages)
    THEN [content |-> content, pages |-> pages, heap |-> heap]
    ELSE LET built == BuildPageBlocks(content.pages[i], content.header, content.footer, heap)
         IN  BuildPages(content, i + 1, built.heap, Append(pages, built.page))

(***************************************************************************)
(* initRuntime (foundation-loader.js) and loadExtensions                   *)
(***************************************************************************)
\* The extensions a site configuration can declare, and the declarations.
Extensions == {"e1", "e2"}
ExtensionLists == {<<>>, <<"e1">>, <<"e1", "e2">>}

\* The foundationSource argument: a URL (or { url }), a promise of a module,
\* a module, or a value that is none of them (undefined, a number).
FoundationSources == {"url", "promise", "module", "none"}

\* A call of initRuntime not made yet: configData is whether a site
\* configuration is found (option, DOM or global), container whether the
\* document has the root element. did lists what the call has done so far.
NewBoot(configData, source, extensions, container) ==
    [configData |-> configData, source |-> source, extensions |-> extensions,
     container |-> container, pc |-> "start", did |-> <<>>,
     ext |-> [e \in Extensions |-> "none"], registered |-> <<>>, failed |-> FALSE]

\* The catch block (lines 1008-1033): the error is logged, the error view is
\* rendered into the root element if there is one, and the call returns.
CatchInit(b) ==
    [b EXCEPT !.pc = "returned", !.failed = TRUE,
              !.did = IF b.container THEN Append(@, "errorView") ELSE @]

\* Lines 983-1006: the active page is set from window.location.pathname,
\* then the application is rendered into the root element; without a root
\* element the call returns after logging.
RenderApp(b) ==
    LET routed == [b EXCEPT !.did = Append(@, "setActivePage")]
    IN  [routed EXCEPT !.pc = "returned",
                       !.did = IF b.container THEN Append(@, "render") ELSE @]

\* The application rendered as soon as the foundation is registered.
LoadExtensionsDetached(b) ==
    IF b.extensions = <<>> THEN RenderApp(b)
    ELSE [RenderApp(b) EXCEPT
             !.pc = "extensions",
             !.ext = [e \in Extensions |->
                         IF \E i \in 1..Len(b.extensions) : b.extensions[i] = e
                         THEN "loading" ELSE "none"]]

\* Lines 972-975 and loadExtensions up to its await: with no declared
\* extension the call goes on; otherwise the load of every declared
\* extension starts and the call waits for all of them to settle.
LoadExtensions(b) ==
    IF b.extensions = <<>> THEN RenderApp(b)
    ELSE [b EXCEPT !.pc = "extensions",
                   !.ext = [e \in Extensions |->
                               IF \E i \in 1..Len(b.extensions) : b.extensions[i] = e
                               THEN "loading" ELSE "none"]]

\* Lines 963-975: a missing foundation throws; a foundation is registered
\* (registerFoundation), then the extensions are loaded.
RegisterFoundation(b, loaded) ==
    IF ~loaded THEN CatchInit(b)
    ELSE LoadExtensions([b EXCEPT !.did = Append(@, "registerFoundation")])

\* loadExtensions after its await (lines 87-94): the fulfilled extensions
\* are registered in the declared order, the rejected ones are logged.
RECURSIVE RegisterExtensions(_, _, _)
RegisterExtensions(b, i, registered) ==
    IF i > Len(b.extensions) THEN registered
    ELSE RegisterExtensions(b, i + 1,
                            IF b.ext[b.extensions[i]] = "fulfilled"
                            THEN Append(registered, b.extensions[i]) ELSE registered)

(***************************************************************************)
(* Analytics (part_001:288-493)                                            *)
(***************************************************************************)
\* new Analytics(options): enabled is whether options.endpoint is given.
\* Events are numbered in the order they are tracked; inFlight holds the
\* batches whose fetch has not settled, delivered the events of the batches
\* the endpoint accepted.
NewAnalytics(enabled, maxQueueSize) ==
    [enabled |-> enabled, maxQueueSize |-> maxQueueSize, queue |-> <<>>,
     tracked |-> 0, inFlight |-> {}, delivered |-> {}]

\* flush() with useBeacon false: nothing when disabled or when the queue is
\* empty; otherwise the queue is emptied and its events are sent as one
\* batch by fetch.
Flush(a) ==
    IF ~a.enabled \/ a.queue = <<>> THEN a
    ELSE [a EXCEPT !.queue = <<>>, !.inFlight = @ \cup {a.queue}]

\* addToQueue(type, data) for the next event: pushed on the queue, which is
\* flushed when it has reached maxQueueSize.
AddToQueue(a) ==
    IF ~a.enabled THEN [a EXCEPT !.tracked = @ + 1]
    ELSE LET pushed == [a EXCEPT !.tracked = @ + 1, !.queue = Append(@, a.tracked + 1)]
         IN  IF Len(pushed.queue) >= pushed.maxQueueSize THEN Flush(pushed) ELSE pushed

\* The fetch of the batch settles. It is fulfilled with the endpoint's
\* response, whatever its status ("ok": a 2xx response, the events are
\* delivered; "refused": any other response, e.g. 500), or it is rejected
\* (network failure) and the catch handler puts the events back in front.
SettleBatch(a, batch, outcome) ==
    LET landed == [a EXCEPT !.inFlight = @ \ {batch}]
    IN  CASE outcome = "ok" ->
                [landed EXCEPT !.delivered = @ \cup {batch[i] : i \in 1..Len(batch)}]
          [] outcome = "refused" -> landed
          [] OTHER -> [landed EXCEPT !.queue = batch \o @]

(***************************************************************************)
(* foundationPlugin (vite/foundation-plugin.js)                            *)
(***************************************************************************)
\* foundationPlugin(options): the closure variables server, watcher,
\* isBuilding and rebuildTimeout, with the options buildOnStart and watch.
\* running counts the calls of Vite's build in progress, hooks the calls of
\* buildStart, changes the changes of source files seen by the watcher,
\* started the builds started, reloads the full-reload messages sent;
\* lastBuild is how the last build ended. stale and fresh are history: stale
\* holds while a change was seen after the start of the last build that
\* ended, fresh while the build in progress started after the last change.
NewPlugin(buildOnStart, shouldWatch) ==
    [buildOnStart |-> buildOnStart, shouldWatch |-> shouldWatch,
     server |-> FALSE, watcher |-> FALSE, isBuilding |-> FALSE,
     rebuildTimeout |-> FALSE, running |-> 0, hooks |-> 0, changes |-> 0,
     started |-> 0, reloads |-> 0, lastBuild |-> "none",
     stale |-> FALSE, fresh |-> FALSE]

\* A buildFoundation without the isBuilding test.
BuildFoundationUnguarded(p) ==
    [p EXCEPT !.isBuilding = TRUE, !.running = @ + 1, !.started = @ + 1, !.fresh = TRUE]

\* buildFoundation() up to its await (lines 51-72): nothing while a build is
\* in progress; otherwise isBuilding is set and Vite's build is called.
BuildFoundation(p) ==
    IF p.isBuilding THEN p
    ELSE [p EXCEPT !.isBuilding = TRUE, !.running = @ + 1, !.started = @ + 1,
                   !.fresh = TRUE]

\* buildFoundation() after its await (lines 74-85): a full-reload message
\* after a build that succeeded, if the dev server is there; the error
\* logged after one that failed; isBuilding cleared in both cases.
BuildFoundationEnds(p, ok) ==
    [p EXCEPT !.running = @ - 1,
              !.isBuilding = FALSE,
              !.reloads = IF ok /\ p.server THEN @ + 1 ELSE @,
              !.lastBuild = IF ok THEN "built" ELSE "failed",
              !.stale = IF p.fresh THEN FALSE ELSE @,
              !.fresh = FALSE]

\* scheduleRebuild() (lines 161-166): the pending timeout is cleared and a
\* new one of 200 ms is set.
ScheduleRebuild(p) == [p EXCEPT !.rebuildTimeout = TRUE]

(***************************************************************************)
(* Layout, Blocks, ChildBlocks and BlockRenderer                           *)
(***************************************************************************)
BlockIds == {"header", "0", "0_0", "1", "left"}

\* block.component of each Section of the site.
ComponentOf ==
    [ header |-> "Card", left |-> "Card" ] @@
    ("0" :> "Hero") @@ ("0_0" :> "Grid") @@ ("1" :> "Missing")

\* The pages the model lays out: the block groups page.getHeaderBlocks(),
\* getBodyBlocks(), getFooterBlocks(), getLeftBlocks() and getRightBlocks()
\* return (<<>> for null), the child Sections of each Section, and whether the
\* foundation provides a custom Layout.
Pages ==
    [ header : {<<>>, <<"header">>},
      body   : {<<"0">>, <<"0", "1">>},
      footer : {<<>>},
      left   : {<<>>, <<"left">>},
      right  : {<<>>},
      childBlocks : {[b \in BlockIds |-> IF b = "0" THEN c ELSE <<>>] :
                        c \in {<<>>, <<"0_0">>}},
      remoteLayout : BOOLEAN ]

SeqSet(s) == {s[i] : i \in 1..Len(s)}

\* The Sections of the five areas, and all Sections of the page.
AreaBlocks(p) ==
    SeqSet(p.header) \cup SeqSet(p.body) \cup SeqSet(p.footer)
        \cup SeqSet(p.left) \cup SeqSet(p.right)
PageBlocks(p) == AreaBlocks(p) \cup UNION {SeqSet(p.childBlocks[b]) : b \in AreaBlocks(p)}

\* initializeAllBlocks(headerBlocks, bodyBlocks, footerBlocks, leftBlocks,
\* rightBlocks): initComponent on each block of each group.
InitializeAllBlocks(bs, p) ==
    [b \in BlockIds |-> IF b \in AreaBlocks(p) THEN InitComponent(bs[b]) ELSE bs[b]]

\* The areas the layout places: the default layout has no panels.
PlacedBlocks(p) ==
    SeqSet(p.header) \cup SeqSet(p.body) \cup SeqSet(p.footer)
        \cup IF p.remoteLayout THEN SeqSet(p.left) \cup SeqSet(p.right) ELSE {}

(***************************************************************************)
(* Entity data: the EntityStore and the two data-fetching BlockRenderers   *)
(***************************************************************************)
Sections == {"a", "b"}

\* The fetch descriptor of a key: a local path, no transform.
ConfigOf(k) ==
    [given |-> TRUE, path |-> "/data/team.json", url |-> "", transform |-> <<>>]

\* The network answers the fetch model draws from: JSON data, a JSON scalar
\* that tests false, an empty text body, a response that is not OK, a
\* rejected fetch, a body that cannot be read.
FetchResponses ==
    { [network |-> "ok", ok |-> TRUE, json |-> TRUE,
       body |-> [kind |-> "json", v |-> Arr(<<1>>)]],
      [network |-> "ok", ok |-> TRUE, json |-> TRUE,
       body |-> [kind |-> "json", v |-> Falsy]],
      [network |-> "ok", ok |-> TRUE, json |-> FALSE,
       body |-> [kind |-> "text", v |-> Falsy]],
      [network |-> "ok", ok |-> FALSE, json |-> TRUE,
       body |-> [kind |-> "json", v |-> Null]],
      [network |-> "reject", ok |-> FALSE, json |-> FALSE,
       body |-> [kind |-> "readError", v |-> Undefined]],
      [network |-> "ok", ok |-> TRUE, json |-> TRUE,
       body |-> [kind |-> "readError", v |-> Undefined]] }

\* A cache entry: its status tag, the resolved data, whether an error of the
\* last retrieval is stored, and whether a retrieval for the key is in flight.
AbsentEntry == [status |-> "absent", data |-> Null, error |-> FALSE, inflight |-> FALSE]
ReadyEntry(data) == [status |-> "ready", data |-> data, error |-> FALSE, inflight |-> FALSE]

\* entityStore.resolve(block, meta): the entry afterwards. A ready entry is
\* returned as it is; otherwise the entry becomes pending when the Section has
\* a fetch descriptor, and stays absent when it has none.
ResolveEntry(entry, hasFetch) ==
    IF entry.status = "ready" THEN entry
    ELSE IF hasFetch THEN [entry EXCEPT !.status = "pending"]
    ELSE entry

\* entityStore.fetch(block, meta): the entry afterwards. A call for a key with
\* a retrieval in flight attaches to it; otherwise it starts one.
FetchEntry(entry) ==
    IF entry.inflight THEN entry
    ELSE [entry EXCEPT !.status = "pending", !.inflight = TRUE]

\* The completion handler of the retrieval: on success the entry is ready with
\* the data; on failure it reverts to absent and keeps the error.
SettleEntry(entry, result) ==
    IF result.hasError
    THEN [entry EXCEPT !.status = "absent", !.error = TRUE, !.inflight = FALSE]
    ELSE [entry EXCEPT !.status = "ready", !.data = result.data, !.error = FALSE,
                       !.inflight = FALSE]

\* dataStore.set(config, data): the entry of the key afterwards.
SetEntry(entry, data) == ReadyEntry(data)

\* configData.fetchedData: absent, or the list of the entries fetched at build
\* time, each the key of its descriptor (the data is an object).
FetchedDataLists == {<<>>, <<"team">>, <<"news">>, <<"team", "news">>, <<"news", "news">>}
NoFetchedData == [given |-> FALSE, entries |-> <<>>]
FetchedData == {NoFetchedData} \cup {[given |-> TRUE, entries |-> e] : e \in FetchedDataLists}

Step(op, key) == [op |-> op, key |-> key]

\* The loop of setupUniweb over configData.fetchedData.
RECURSIVE SetAll(_, _)
SetAll(st, entries) ==
    IF entries = <<>> THEN st
    ELSE SetAll([st EXCEPT ![Head(entries)] = SetEntry(@, Obj(EmptyObj))], Tail(entries))

\* The same set-up with the fetcher registered and nothing stored.
SetupUniwebWithoutData(fetchedData) ==
    [store |-> [k \in DataKeys |-> AbsentEntry],
     steps |-> <<Step("createUniweb", "team"), Step("registerFetcher", "team")>>,
     fetched |-> IF fetchedData.given THEN SeqSet(fetchedData.entries) ELSE {},
     fetcher |-> TRUE]

\* setupUniweb(configData): the store it leaves, the calls it made in order,
\* the keys of configData.fetchedData, and whether the fetcher is registered.
SetupUniweb(fetchedData) ==
    LET entries == IF fetchedData.given THEN fetchedData.entries ELSE <<>>
    IN  [store |-> SetAll([k \in DataKeys |-> AbsentEntry], entries),
         steps |-> <<Step("createUniweb", "team")>>
                   \o [i \in 1..Len(entries) |-> Step("set", entries[i])]
                   \o <<Step("registerFetcher", "team")>>,
         fetched |-> SeqSet(entries),
         fetcher |-> TRUE]

\* The React state of a BlockRenderer: data is asyncData (entity variant) or
\* the data of runtimeData (runtime variant), Null for null; fetchError is
\* whether fetchError is set; needsRender is whether a state change has
\* scheduled a render that has not run yet; mounts counts the Sections the
\* renderer has been given (a mount, or a new block prop on navigation);
\* dataMount is the Section (by that count) whose fetch produced data, 0 for
\* none, and dataKey the schema key runtimeData holds it under.
Unmounted(mounts) ==
    [mounted |-> FALSE, data |-> Null, fetchError |-> FALSE, needsRender |-> FALSE,
     mounts |-> mounts, dataMount |-> 0, dataKey |-> "team"]

\* A fetch call awaiting its promise: the key, the Section whose effect made
\* it, the mount that made it, and the cancelled flag of the effect's closure.
Flight(k, sec, mount) == [key |-> k, sec |-> sec, mount |-> mount, cancelled |-> FALSE]

\* The cleanup of the effects of a Section: cancelled = true.
CancelFlights(fs, sec) ==
    {IF f.sec = sec THEN [f EXCEPT !.cancelled = TRUE] ELSE f : f \in fs}

\* BlockRenderer (entity variant), lines 93-96: the loading flag of a render
\* that resolved `entry` and holds asyncData `data`.
EntityDataLoading(entry, data) ==
    LET entityData == IF entry.status = "ready" THEN entry.data ELSE data
    IN  entry.status = "pending" /\ ~Truthy(entityData)

\* BlockRenderer (runtime variant), lines 480-484: the loading flag after a
\* render, `old` being the flag before it.
RuntimeDataLoading(shouldFetchAtRuntime, c, old) ==
    IF shouldFetchAtRuntime /\ ~Truthy(c.data) /\ ~c.fetchError THEN TRUE
    ELSE IF shouldFetchAtRuntime THEN FALSE
    ELSE old

\* The .then callback of the entity variant's effect (lines 86-88), of the
\* fetch that Section number `mount` of the renderer started.
EntityThen(c, cancelled, result, mount) ==
    IF ~cancelled /\ Truthy(result.data)
    THEN [c EXCEPT !.data = result.data, !.needsRender = TRUE, !.dataMount = mount]
    ELSE c

\* doFetch of the runtime variant after its await (lines 461-468), of the
\* fetch that Section number `mount` of the renderer started for `key`.
RuntimeThen(c, cancelled, result, mount, key) ==
    IF cancelled THEN c
    ELSE [c EXCEPT !.fetchError = c.fetchError \/ result.hasError,
                   !.data = IF Truthy(result.data) THEN result.data ELSE c.data,
                   !.dataMount = IF Truthy(result.data) THEN mount ELSE c.dataMount,
                   !.dataKey = IF Truthy(result.data) THEN key ELSE c.dataKey,
                   !.needsRender = c.needsRender \/ result.hasError \/ Truthy(result.data)]

\* BlockRenderer (entity variant), lines 93 and 122-130: the Section whose
\* fetch produced the asyncData this render merges into content.data, 0 when
\* the render merges the store's data or none.
EntityShown(entry, c) ==
    IF entry.status # "ready" /\ Truthy(c.data) THEN c.dataMount ELSE 0

\* BlockRenderer (runtime variant), lines 513-516: the Section whose fetch
\* produced the runtimeData this render merges under the schema key `key`.
RuntimeShown(shouldFetchAtRuntime, key, c) ==
    IF Truthy(c.data) /\ shouldFetchAtRuntime /\ c.dataKey = key THEN c.dataMount ELSE 0

(***************************************************************************)
(* prepare-props.js: the guaranteed content structure                      *)
(***************************************************************************)
\* The values a field of the parsed content may hold, each named by a
\* JavaScript literal of its kind: no value, the falsy and truthy strings, a
\* number, an empty and a populated array, an object.
Literals == {"undefined", "null", "''", "'text'", "42", "[]", "['p']", "{}"}

\* if (v)
LitTruthy(v) == v \notin {"undefined", "null", "''"}

\* v || d
OrDefault(v, d) == IF LitTruthy(v) THEN v ELSE d

\* content.items, or the items of an entry: an array of entries
\* (kind "array"), or a value v that is not an array (kind "value").
ItemsOf(kind, v, entries) == [kind |-> kind, v |-> v, entries |-> entries]

\* block.parsedContent, or an entry of content.items: an object with its
\* fields. The model keeps one field of each kind the code treats alike:
\* title for the string fields (title, pretitle, subtitle, subtitle2),
\* paragraphs for the sequence fields (paragraphs, links, imgs, lists, icons,
\* videos, insets, buttons, cards, documents, forms, quotes, headings,
\* sequence), data, and items.
ContentObject(title, paragraphs, data, items) ==
    [kind |-> "object", v |-> "{}", title |-> title, paragraphs |-> paragraphs,
     data |-> data, items |-> items]

\* ... or a value v that is not an object: every property read of it gives
\* undefined, or throws when v is null or undefined.
ContentValue(v) ==
    [kind |-> "value", v |-> v, title |-> "undefined", paragraphs |-> "undefined",
     data |-> "undefined", items |-> ItemsOf("value", "undefined", <<>>)]

\* guaranteeItemStructure(item); threw is TRUE when the call raises a
\* TypeError instead of returning.
GuaranteeItemStructure(item) ==
    [threw      |-> item.kind = "value" /\ item.v \in {"undefined", "null"},
     title      |-> OrDefault(item.title, "''"),
     paragraphs |-> OrDefault(item.paragraphs, "[]"),
     data       |-> OrDefault(item.data, "{}"),
     items      |-> <<>>]

\* guaranteeContentStructure(parsedContent); threw is TRUE when the call
\* raises a TypeError instead of returning: line 73 calls map on a truthy
\* value that is not an array, or guaranteeItemStructure throws.
GuaranteeContentStructure(parsedContent) ==
    LET content == IF parsedContent.kind = "value" /\ ~LitTruthy(parsedContent.v)
                   THEN ContentObject("undefined", "undefined", "undefined",
                                      ItemsOf("value", "undefined", <<>>))
                   ELSE parsedContent
        entries == IF content.items.kind = "array" THEN content.items.entries ELSE <<>>
        items   == [i \in 1..Len(entries) |-> GuaranteeItemStructure(entries[i])]
    IN  [threw      |-> \/ content.items.kind = "value" /\ LitTruthy(content.items.v)
                        \/ \E i \in 1..Len(items) : items[i].threw,
         title      |-> OrDefault(content.title, "''"),
         paragraphs |-> OrDefault(content.paragraphs, "[]"),
         data       |-> OrDefault(content.data, "{}"),
         items      |-> items]

(***************************************************************************)
(* prepare-props.js: schemas applied to content.data                       *)
(***************************************************************************)
\* The fields an object of the data may have. No schema of the model
\* declares "extra".
Fields == {"status", "tags", "extra"}

\* A value of the data: t is "undefined", "null", "string" (the string s),
\* "object" (with the fields f) or "array" (with the elements a).
DataVal(t, s, f, a) == [t |-> t, s |-> s, f |-> f, a |-> a]

\* The fields of an object that has none, for an object nested in a field
\* and for an object of the data.
NoLeaves == [x \in Fields |-> DataVal("undefined", "", <<>>, <<>>)]
NoFields == [x \in Fields |-> DataVal("undefined", "", NoLeaves, <<>>)]

\* A field a schema does not declare. default and sub only give the record
\* the form of the declared ones.
Undeclared(default, sub) ==
    [declared |-> FALSE, full |-> FALSE, hasDefault |-> FALSE, default |-> default,
     hasOptions |-> FALSE, options |-> {}, type |-> "none", sub |-> sub]

\* A field definition in the full form (an object, not the shorthand type
\* name): its default and its options when it has them, and its type:
\* "object" with the nested schema sub, "array" with the element schema sub,
\* or "none".
FullDef(hasDefault, default, hasOptions, options, type, sub) ==
    [declared |-> TRUE, full |-> TRUE, hasDefault |-> hasDefault, default |-> default,
     hasOptions |-> hasOptions, options |-> options, type |-> type, sub |-> sub]

\* if (v), for a value of the data
HasTruth(v) == v.t \notin {"undefined", "null"} /\ ~(v.t = "string" /\ v.s = "")

\* Lines 100-115 with the one-of correction left out.
DefaultedFieldKeepInvalid(v, fieldDef) ==
    IF fieldDef.full /\ fieldDef.hasDefault /\ v.t = "undefined"
    THEN fieldDef.default
    ELSE v

\* applySchemaToObject, lines 100-115: the field after the default and the
\* one-of correction.
DefaultedField(v, fieldDef) ==
    LET hasDefault == fieldDef.full /\ fieldDef.hasDefault
        v1 == IF v.t = "undefined" /\ hasDefault THEN fieldDef.default ELSE v
    IN  IF /\ fieldDef.full /\ fieldDef.hasOptions
           /\ v1.t # "undefined"
           /\ ~(v1.t = "string" /\ v1.s \in fieldDef.options)
           /\ hasDefault
        THEN fieldDef.default
        ELSE v1

\* An applySchemaToObject that builds its result from the declared fields only.
ApplySchemaToObjectDeclaredOnly(obj, schema) ==
    IF obj.t # "object" THEN obj
    ELSE [obj EXCEPT !.f = [x \in Fields |->
            IF schema[x].declared THEN DefaultedField(obj.f[x], schema[x])
            ELSE [obj.f[x] EXCEPT !.t = "undefined"]]]

\* applySchemaToObject(obj, schema), when it returns
RECURSIVE ApplySchemaToObject(_, _)
ApplySchemaToObject(obj, schema) ==
    IF obj.t # "object" THEN obj
    ELSE [obj EXCEPT !.f = [x \in Fields |->
            LET fieldDef == schema[x]
                v == IF fieldDef.declared THEN DefaultedField(obj.f[x], fieldDef)
                     ELSE obj.f[x]
            IN  IF fieldDef.full /\ fieldDef.type = "object" /\ HasTruth(v)
                THEN ApplySchemaToObject(v, fieldDef.sub)
                ELSE IF fieldDef.full /\ fieldDef.type = "array" /\ HasTruth(v)
                THEN [v EXCEPT !.a = [i \in 1..Len(v.a) |->
                                         ApplySchemaToObject(v.a[i], fieldDef.sub)]]
                ELSE v]]

\* Whether applySchemaToObject(obj, schema) throws: line 125 calls map on a
\* truthy value that is not an array.
RECURSIVE SchemaThrows(_, _)
SchemaThrows(obj, schema) ==
    /\ obj.t = "object"
    /\ \E x \in Fields :
          LET fieldDef == schema[x]
              v == IF fieldDef.declared THEN DefaultedField(obj.f[x], fieldDef)
                   ELSE obj.f[x]
          IN  /\ fieldDef.full
              /\ HasTruth(v)
              /\ \/ fieldDef.type = "array" /\ v.t # "array"
                 \/ fieldDef.type = "object" /\ SchemaThrows(v, fieldDef.sub)
                 \/ /\ fieldDef.type = "array"
                    /\ \E i \in 1..Len(v.a) : SchemaThrows(v.a[i], fieldDef.sub)

\* applySchemaToValue(value, schema)
ApplySchemaToValue(value, schema) ==
    IF value.t = "array"
    THEN [value EXCEPT !.a = [i \in 1..Len(value.a) |->
                                 ApplySchemaToObject(value.a[i], schema)]]
    ELSE ApplySchemaToObject(value, schema)

\* content.data: present is FALSE when it is undefined; m gives the value of
\* each key, an undefined one for a key the data does not have.
ContentData(present, team, news) ==
    [present |-> present, m |-> [k \in DataKeys |-> IF k = "team" THEN team ELSE news]]

\* meta.schemas: given is FALSE when the component declares none; has[k]
\* tells whether there is a schema for the key k, of[k] gives its fields.
\* applySchemas(data, schemas), when it returns
ApplySchemas(data, schemas) ==
    IF ~schemas.given \/ ~data.present THEN [data EXCEPT !.present = TRUE]
    ELSE [data EXCEPT !.m = [k \in DataKeys |->
            IF data.m[k].t = "undefined" \/ ~schemas.has[k] THEN data.m[k]
            ELSE ApplySchemaToValue(data.m[k], schemas.of[k])]]

\* Whether applySchemas(data, schemas) throws, applySchemaToValue included.
SchemasThrow(data, schemas) ==
    /\ schemas.given
    /\ data.present
    /\ \E k \in DataKeys :
          /\ data.m[k].t # "undefined"
          /\ schemas.has[k]
          /\ IF data.m[k].t = "array"
             THEN \E i \in 1..Len(data.m[k].a) : SchemaThrows(data.m[k].a[i], schemas.of[k])
             ELSE SchemaThrows(data.m[k], schemas.of[k])

\* A prepareProps that stores the data it made in the block's parsed content.
PreparePropsInPlace(data, schemas) ==
    LET guaranteed == [data EXCEPT !.present = TRUE]
        applied == IF schemas.given THEN ApplySchemas(guaranteed, schemas) ELSE guaranteed
    IN  [block |-> applied, threw |-> SchemasThrow(guaranteed, schemas), data |-> applied]

\* prepareProps(block, meta), lines 203-211, for a block whose parsed content
\* has the given data: guaranteeContentStructure gives an absent data an
\* empty map, and the schemas are applied when there are some. block is the
\* data of the block's parsed content as the call leaves it, data the data of
\* the content it returns.
PrepareProps(data, schemas) ==
    LET guaranteed == [data EXCEPT !.present = TRUE]
    IN  [block |-> data,
         threw |-> SchemasThrow(guaranteed, schemas),
         data  |-> IF schemas.given THEN ApplySchemas(guaranteed, schemas) ELSE guaranteed]

(***************************************************************************)
(* Specifications                                                          *)
(***************************************************************************)
PageLists == UNION {[1..n -> Routes] : n \in 0..MaxPages}

\* No call of prepare-props.js, and its result before the call returned
\* (the content is a placeholder until done is TRUE).
IdlePropsCall ==
    [kind |-> "none", content |-> ContentValue("undefined"),
     data |-> ContentData(FALSE, DataVal("undefined", "", NoFields, <<>>),
                      DataVal("undefined", "", NoFields, <<>>)),
     schemas |-> [given |-> FALSE, has |-> [k \in DataKeys |-> FALSE],
                 of |-> [k \in DataKeys |->
                           [x \in Fields |-> Undeclared(NoFields["extra"], NoFields)]]]]
NotPrepared ==
    [done |-> FALSE, threw |-> FALSE,
     content |-> GuaranteeContentStructure(ContentValue("undefined")),
     data |-> IdlePropsCall.data]

\* ---- prepare-props.js: the inputs of its functions.
\* Parsed contents: every combination of values of the fields, every form of
\* the items (entries that are objects, and entries that are not), and the
\* contents that are not objects.
ContentSamples ==
    LET noItems == ItemsOf("value", "undefined", <<>>)
        itemLiterals == {"undefined", "''", "'text'", "['p']"}
        itemEntries ==
            {ContentObject(t, p, d, noItems) :
                t \in itemLiterals, p \in itemLiterals, d \in {"undefined", "{}"}}
            \cup {ContentValue(v) : v \in Literals \ {"{}"}}
        itemsSamples ==
            {ItemsOf("value", v, <<>>) : v \in Literals \ {"[]", "['p']"}}
            \cup {ItemsOf("array", "[]", e) :
                    e \in UNION {[1..n -> itemEntries] : n \in 0..MaxArr}}
    IN  {ContentObject(t, p, d, noItems) : t \in Literals, p \in Literals, d \in Literals}
        \cup {ContentObject("'text'", "['p']", "{}", it) : it \in itemsSamples}
        \cup {ContentValue(v) : v \in Literals \ {"{}"}}

\* Schemas: none, an empty set, and a schema for the key team with the
\* one-of field status (options a and b) and the nested field tags, each in
\* the forms a definition may take.
SchemaSets ==
    LET NoSchemas == IdlePropsCall.schemas
        noLeaf == NoLeaves["extra"]
        noField == NoFields["extra"]
        noInner == [x \in Fields |-> Undeclared(noLeaf, <<>>)]
        inner ==
            {[noInner EXCEPT !["status"] = d] :
                d \in {[Undeclared(noLeaf, <<>>) EXCEPT !.declared = TRUE],
                       FullDef(TRUE, DataVal("string", "a", <<>>, <<>>), TRUE, {"a", "b"},
                               "none", <<>>),
                       FullDef(FALSE, noLeaf, TRUE, {"a", "b"}, "none", <<>>)}}
        statusDefs ==
            {Undeclared(noField, noInner),
             [Undeclared(noField, noInner) EXCEPT !.declared = TRUE],
             FullDef(TRUE, DataVal("string", "a", NoLeaves, <<>>), TRUE, {"a", "b"},
                     "none", noInner),
             FullDef(TRUE, DataVal("string", "z", NoLeaves, <<>>), FALSE, {}, "none", noInner),
             FullDef(FALSE, noField, TRUE, {"a", "b"}, "none", noInner)}
        tagsDefs ==
            {Undeclared(noField, noInner)}
            \cup {FullDef(FALSE, noField, FALSE, {}, t, s) :
                    t \in {"object", "array"}, s \in inner}
            \cup {FullDef(TRUE, DataVal("object", "", NoLeaves, <<>>), FALSE, {}, "object", s) :
                    s \in inner}
    IN  {NoSchemas, [NoSchemas EXCEPT !.given = TRUE]}
        \cup {[NoSchemas EXCEPT !.given = TRUE, !.has["team"] = TRUE,
                  !.of["team"] = [status |-> sd, tags |-> td,
                                  extra |-> Undeclared(noField, noInner)]] :
                sd \in statusDefs, td \in tagsDefs}

\* Data: absent, or a map whose key team is missing, null, a string, an
\* object or an array, with fields that are missing, null, valid, invalid,
\* nested objects and arrays; the key news has no schema.
DataSamples ==
    LET noLeaf == NoLeaves["extra"]
        noField == NoFields["extra"]
        noValue == DataVal("undefined", "", NoFields, <<>>)
        leaves == {noLeaf, DataVal("null", "", <<>>, <<>>), DataVal("string", "a", <<>>, <<>>),
                   DataVal("string", "z", <<>>, <<>>)}
        inners ==
            {DataVal("object", "", [NoLeaves EXCEPT !["status"] = s, !["extra"] = e], <<>>) :
                s \in leaves, e \in {noLeaf, DataVal("string", "z", <<>>, <<>>)}}
            \cup {DataVal("string", "z", NoLeaves, <<>>), DataVal("null", "", NoLeaves, <<>>)}
        status == {noField, DataVal("null", "", NoLeaves, <<>>),
                   DataVal("string", "a", NoLeaves, <<>>), DataVal("string", "z", NoLeaves, <<>>)}
        tags ==
            {noField, DataVal("null", "", NoLeaves, <<>>), DataVal("string", "z", NoLeaves, <<>>)}
            \cup {o \in inners : o.t = "object" /\ o.f["extra"].t = "string"}
            \cup {DataVal("array", "", NoLeaves, a) :
                    a \in UNION {[1..n -> inners] : n \in 0..MaxArr}}
        extra == {noField, DataVal("string", "z", NoLeaves, <<>>)}
        objects ==
            {DataVal("object", "", [status |-> s, tags |-> t, extra |-> e], <<>>) :
                s \in status, t \in tags, e \in extra}
        elements ==
            {o \in objects : o.f["tags"].t = "undefined"}
            \cup {DataVal("string", "z", NoFields, <<>>), DataVal("null", "", NoFields, <<>>)}
        team ==
            {noValue, DataVal("null", "", NoFields, <<>>), DataVal("string", "z", NoFields, <<>>)}
            \cup objects
            \cup {DataVal("array", "", NoFields, a) :
                    a \in UNION {[1..n -> elements] : n \in 0..MaxArr}}
        news == {noValue,
                 DataVal("object", "",
                         [NoFields EXCEPT !["status"] = DataVal("string", "z", NoLeaves, <<>>),
                                          !["extra"] = DataVal("string", "z", NoLeaves, <<>>)],
                         <<>>)}
    IN  {ContentData(FALSE, noValue, noValue)}
        \cup {ContentData(TRUE, t, n) : t \in team, n \in news}

\* The variables of each part when another part runs.
IdleMore ==
    /\ plugin = NewPlugin(FALSE, FALSE)
    /\ analytics = NewAnalytics(FALSE, 10)
    /\ boot = NewBoot(FALSE, "none", <<>>, FALSE)
    /\ tree = BuildPages([header |-> [given |-> FALSE, sub |-> <<>>],
                          footer |-> [given |-> FALSE, sub |-> <<>>],
                          pages |-> <<>>], 1, <<>>, <<>>)
    /\ localized = [config |-> [defaultLanguage |-> "", hasLanguages |-> FALSE,
                                languages |-> <<>>],
                    val |-> [kind |-> "null", s |-> "", m |-> [l \in Langs |-> "<undefined>"]],
                    defaultVal |-> "", givenLang |-> "", fallback |-> FALSE,
                    done |-> FALSE, result |-> ""]

IdleWeb ==
    /\ website = NewWebsite(<<>>)
    /\ lastRoute = NoCall
    /\ before = website
    /\ websiteData = SiteConfig(FALSE, <<>>, 0)
    /\ uniweb = NewUniweb
    /\ dataStore = [fetcher |-> TRUE]
    /\ previous = NoPrevious
    /\ view = NoView

DefaultResp ==
    [network |-> "ok", ok |-> TRUE, json |-> TRUE,
     body |-> [kind |-> "json", v |-> Null]]
IdleCall ==
    [kind |-> "none", current |-> NoData, fetched |-> Undefined, schema |-> "",
     merge |-> FALSE, entity |-> NoData, config |-> NoConfig, resp |-> DefaultResp]
NoRet ==
    [done |-> FALSE, data |-> NoData, result |-> Resolved(Return(Undefined, FALSE, ""))]
IdlePure ==
    /\ call = IdleCall
    /\ ret = NoRet
    /\ props = IdlePropsCall
    /\ prepared = NotPrepared
    /\ IdleMore

IdleRender ==
    /\ page = [header |-> <<>>, body |-> <<"0">>, footer |-> <<>>, left |-> <<>>,
               right |-> <<>>, childBlocks |-> [b \in BlockIds |-> <<>>],
               remoteLayout |-> FALSE]
    /\ blocks = [b \in BlockIds |-> NewBlock(ComponentOf[b])]
    /\ laidOut = FALSE
    /\ lastOp = [op |-> "none", block |-> "0"]

IdleFetch ==
    /\ renderer = "entity"
    /\ fetchOf = [s \in Sections |-> [key |-> "team", hasFetch |-> FALSE]]
    /\ comp = [s \in Sections |-> Unmounted(0)]
    /\ dataLoading = [s \in Sections |-> FALSE]
    /\ flights = {}
    /\ retrievals = [k \in DataKeys |-> 0]
    /\ store = SetupUniweb(NoFetchedData).store
    /\ lastSettle = [op |-> "none", key |-> "team", resp |-> DefaultResp]
    /\ shown = [s \in Sections |-> 0]
    /\ setup = [steps |-> SetupUniweb(NoFetchedData).steps,
                fetched |-> SetupUniweb(NoFetchedData).fetched,
                fetcher |-> SetupUniweb(NoFetchedData).fetcher]

\* ---- Website.localize: one call on a Website built from a config.
LocalizeCalls ==
    LET noMap == [l \in Langs |-> "<undefined>"]
        maps == {m \in [Langs -> {"<undefined>", "", "Hello", "Bonjour", "Hallo"}] :
                    \A l \in Langs : m[l] \in {"<undefined>", "", TextOf[l]}}
        vals == {[kind |-> "string", s |-> s, m |-> noMap] :
                    s \in {"", "Hello", "{Hello", "\"Hello", "\"Hello\""}}
                \cup {[kind |-> k, s |-> "{...}", m |-> m] : k \in {"object", "json"}, m \in maps}
                \cup {[kind |-> k, s |-> "", m |-> noMap] : k \in {"null", "array", "number"}}
        configs == {[defaultLanguage |-> d, hasLanguages |-> h, languages |-> ls] :
                       d \in {"", "fr", "de"}, h \in BOOLEAN,
                       ls \in {<<>>, <<"fr", "en">>, <<"de">>}}
    IN  {[config |-> c, val |-> v, defaultVal |-> dv, givenLang |-> gl, fallback |-> fb,
          done |-> FALSE, result |-> ""] :
            c \in {x \in configs : x.hasLanguages \/ x.languages = <<>>},
            v \in vals, dv \in {"", "default"}, gl \in Langs \cup {""}, fb \in BOOLEAN}

InitLocalize ==
    /\ localized \in LocalizeCalls
    /\ plugin = NewPlugin(FALSE, FALSE)
    /\ analytics = NewAnalytics(FALSE, 10)
    /\ boot = NewBoot(FALSE, "none", <<>>, FALSE)
    /\ tree = BuildPages([header |-> [given |-> FALSE, sub |-> <<>>],
                          footer |-> [given |-> FALSE, sub |-> <<>>],
                          pages |-> <<>>], 1, <<>>, <<>>)
    /\ IdleWeb
    /\ call = IdleCall
    /\ ret = NoRet
    /\ props = IdlePropsCall
    /\ prepared = NotPrepared
    /\ IdleRender
    /\ IdleFetch

CallLocalize ==
    /\ ~localized.done
    /\ localized' = [localized EXCEPT !.done = TRUE,
                        !.result = Localize(WebsiteLangs(localized.config), localized.val,
                                            localized.defaultVal, localized.givenLang,
                                            localized.fallback)]
    /\ UNCHANGED <<tree, boot, analytics, plugin, webVars, call, ret, props, prepared,
                   renderVars, fetchVars>>

SpecLocalize == InitLocalize /\ [][CallLocalize]_vars

\* ---- the content tree: a Website is built from a content, the header and
\* footer components of a Page change their Block's state, and the Website
\* is built again from the same content.
TreeContents ==
    LET s0 == <<>>
        s1 == <<s0>>
        s2 == <<s0, s1>>
        bodies == UNION {[1..n -> {s0, s1, s2}] : n \in 0..2}
    IN  [header : {[given |-> FALSE, sub |-> <<>>], [given |-> TRUE, sub |-> s0],
                   [given |-> TRUE, sub |-> s1]},
         footer : {[given |-> FALSE, sub |-> <<>>], [given |-> TRUE, sub |-> s0]},
         pages  : UNION {[1..n -> bodies] : n \in 1..2}]

InitTree ==
    /\ \E c \in TreeContents : tree = BuildPages(c, 1, <<>>, <<>>)
    /\ plugin = NewPlugin(FALSE, FALSE)
    /\ analytics = NewAnalytics(FALSE, 10)
    /\ boot = NewBoot(FALSE, "none", <<>>, FALSE)
    /\ localized = [config |-> [defaultLanguage |-> "", hasLanguages |-> FALSE,
                                languages |-> <<>>],
                    val |-> [kind |-> "null", s |-> "", m |-> [l \in Langs |-> "<undefined>"]],
                    defaultVal |-> "", givenLang |-> "", fallback |-> FALSE,
                    done |-> FALSE, result |-> ""]
    /\ IdleWeb
    /\ call = IdleCall
    /\ ret = NoRet
    /\ props = IdlePropsCall
    /\ prepared = NotPrepared
    /\ IdleRender
    /\ IdleFetch

\* The header or footer component of the Page p, shown, sets its Block's
\* state (the setter of useBlockState, uniweb.js).
SetAreaState(p, ref) ==
    /\ ref \in {tree.pages[p].header, tree.pages[p].footer} \ {0}
    /\ tree.heap[ref].state = NullState
    /\ tree' = [tree EXCEPT !.heap[ref].state = "s1"]
    /\ UNCHANGED <<localized, boot, analytics, plugin, webVars, call, ret, props, prepared,
                   renderVars, fetchVars>>

\* The Website is built again from the same content.
BuildAgain ==
    /\ tree' = BuildPages(tree.content, 1, <<>>, <<>>)
    /\ UNCHANGED <<localized, boot, analytics, plugin, webVars, call, ret, props, prepared,
                   renderVars, fetchVars>>

NextTree ==
    \/ \E p \in 1..Len(tree.pages), ref \in 1..Len(tree.heap) : SetAreaState(p, ref)
    \/ BuildAgain

SpecTree == InitTree /\ [][NextTree]_vars

\* ---- initRuntime: one call, with the loads of the foundation and of the
\* extensions settling in any order and with either outcome.
InitBoot ==
    /\ \E c, r \in BOOLEAN, s \in FoundationSources, x \in ExtensionLists :
          boot = NewBoot(c, s, x, r)
    /\ plugin = NewPlugin(FALSE, FALSE)
    /\ analytics = NewAnalytics(FALSE, 10)
    /\ tree = BuildPages([header |-> [given |-> FALSE, sub |-> <<>>],
                          footer |-> [given |-> FALSE, sub |-> <<>>],
                          pages |-> <<>>], 1, <<>>, <<>>)
    /\ localized = [config |-> [defaultLanguage |-> "", hasLanguages |-> FALSE,
                                languages |-> <<>>],
                    val |-> [kind |-> "null", s |-> "", m |-> [l \in Langs |-> "<undefined>"]],
                    defaultVal |-> "", givenLang |-> "", fallback |-> FALSE,
                    done |-> FALSE, result |-> ""]
    /\ IdleWeb
    /\ call = IdleCall
    /\ ret = NoRet
    /\ props = IdlePropsCall
    /\ prepared = NotPrepared
    /\ IdleRender
    /\ IdleFetch

\* initRuntime up to its first await (lines 925-961): without a site
\* configuration it logs and returns; otherwise setupUniweb, then the
\* foundation is awaited (URL, promise), taken as it is (module), or missing.
InitRuntime ==
    /\ boot.pc = "start"
    /\ boot' = IF ~boot.configData THEN [boot EXCEPT !.pc = "returned"]
               ELSE LET b == [boot EXCEPT !.did = <<"configData", "setupUniweb">>]
                    IN  CASE boot.source \in {"url", "promise"} ->
                                [b EXCEPT !.pc = "foundation"]
                          [] boot.source = "module" -> RegisterFoundation(b, TRUE)
                          [] OTHER -> RegisterFoundation(b, FALSE)
    /\ UNCHANGED <<localized, tree, analytics, plugin, webVars, call, ret, props, prepared,
                   renderVars, fetchVars>>

\* The awaited foundation settles: loaded, or the import rejects (or the
\* promise gives no module).
FoundationSettles(loaded) ==
    /\ boot.pc = "foundation"
    /\ boot' = RegisterFoundation(boot, loaded)
    /\ UNCHANGED <<localized, tree, analytics, plugin, webVars, call, ret, props, prepared,
                   renderVars, fetchVars>>

\* The load of one extension settles.
ExtensionSettles(e, loaded) ==
    /\ boot.ext[e] = "loading"
    /\ boot' = [boot EXCEPT !.ext[e] = IF loaded THEN "fulfilled" ELSE "rejected"]
    /\ UNCHANGED <<localized, tree, analytics, plugin, webVars, call, ret, props, prepared,
                   renderVars, fetchVars>>

\* Promise.allSettled resolves: loadExtensions registers, initRuntime goes on.
ExtensionsSettled ==
    /\ boot.pc = "extensions"
    /\ \A e \in Extensions : boot.ext[e] # "loading"
    /\ boot' = RenderApp([boot EXCEPT !.registered = RegisterExtensions(boot, 1, <<>>),
                                       !.did = Append(@, "loadExtensions")])
    /\ UNCHANGED <<localized, tree, analytics, plugin, webVars, call, ret, props, prepared,
                   renderVars, fetchVars>>

NextBoot ==
    \/ InitRuntime
    \/ \E loaded \in BOOLEAN : FoundationSettles(loaded)
    \/ \E e \in Extensions, loaded \in BOOLEAN : ExtensionSettles(e, loaded)
    \/ ExtensionsSettled

SpecBoot == InitBoot /\ [][NextBoot]_vars

\* ---- Analytics: events are tracked, the interval flushes, and the
\* fetches of the batches settle, in any order.
InitAnalytics ==
    /\ \E enabled \in BOOLEAN, size \in {2, 10} : analytics = NewAnalytics(enabled, size)
    /\ plugin = NewPlugin(FALSE, FALSE)
    /\ boot = NewBoot(FALSE, "none", <<>>, FALSE)
    /\ tree = BuildPages([header |-> [given |-> FALSE, sub |-> <<>>],
                          footer |-> [given |-> FALSE, sub |-> <<>>],
                          pages |-> <<>>], 1, <<>>, <<>>)
    /\ localized = [config |-> [defaultLanguage |-> "", hasLanguages |-> FALSE,
                                languages |-> <<>>],
                    val |-> [kind |-> "null", s |-> "", m |-> [l \in Langs |-> "<undefined>"]],
                    defaultVal |-> "", givenLang |-> "", fallback |-> FALSE,
                    done |-> FALSE, result |-> ""]
    /\ IdleWeb
    /\ call = IdleCall
    /\ ret = NoRet
    /\ props = IdlePropsCall
    /\ prepared = NotPrepared
    /\ IdleRender
    /\ IdleFetch

\* trackPageView, trackEvent or trackScrollDepth queues an event.
Track ==
    /\ analytics.tracked < MaxEvents
    /\ analytics' = AddToQueue(analytics)
    /\ UNCHANGED <<localized, tree, boot, plugin, webVars, call, ret, props, prepared,
                   renderVars, fetchVars>>

\* The interval set up by the constructor calls flush().
IntervalFlush ==
    /\ analytics.enabled
    /\ analytics' = Flush(analytics)
    /\ UNCHANGED <<localized, tree, boot, plugin, webVars, call, ret, props, prepared,
                   renderVars, fetchVars>>

\* The fetch of a batch settles.
BatchSettles(batch, outcome) ==
    /\ batch \in analytics.inFlight
    /\ analytics' = SettleBatch(analytics, batch, outcome)
    /\ UNCHANGED <<localized, tree, boot, plugin, webVars, call, ret, props, prepared,
                   renderVars, fetchVars>>

NextAnalytics ==
    \/ Track
    \/ IntervalFlush
    \/ \E batch \in analytics.inFlight, outcome \in {"ok", "refused", "rejected"} :
          BatchSettles(batch, outcome)

SpecAnalytics == InitAnalytics /\ [][NextAnalytics]_vars

\* ---- the foundation plugin: the hooks Vite calls, the changes the watcher
\* reports, the rebuild timeout and the builds, in any order.
InitBuild ==
    /\ \E buildOnStart, shouldWatch \in BOOLEAN : plugin = NewPlugin(buildOnStart, shouldWatch)
    /\ analytics = NewAnalytics(FALSE, 10)
    /\ boot = NewBoot(FALSE, "none", <<>>, FALSE)
    /\ tree = BuildPages([header |-> [given |-> FALSE, sub |-> <<>>],
                          footer |-> [given |-> FALSE, sub |-> <<>>],
                          pages |-> <<>>], 1, <<>>, <<>>)
    /\ localized = [config |-> [defaultLanguage |-> "", hasLanguages |-> FALSE,
                                languages |-> <<>>],
                    val |-> [kind |-> "null", s |-> "", m |-> [l \in Langs |-> "<undefined>"]],
                    defaultVal |-> "", givenLang |-> "", fallback |-> FALSE,
                    done |-> FALSE, result |-> ""]
    /\ IdleWeb
    /\ call = IdleCall
    /\ ret = NoRet
    /\ props = IdlePropsCall
    /\ prepared = NotPrepared
    /\ IdleRender
    /\ IdleFetch

\* The buildStart hook (lines 98-102).
BuildStart ==
    /\ plugin.hooks < MaxRebuilds
    /\ plugin' = LET called == [plugin EXCEPT !.hooks = @ + 1]
                 IN  IF plugin.buildOnStart THEN BuildFoundation(called) ELSE called
    /\ UNCHANGED <<localized, tree, boot, analytics, webVars, call, ret, props, prepared,
                   renderVars, fetchVars>>

\* The configureServer hook (lines 104-183): the server is kept and, with
\* the watch option, the source directory is watched unless watch() throws.
ConfigureServer(watchOk) ==
    /\ ~plugin.server
    /\ plugin' = [plugin EXCEPT !.server = TRUE,
                                !.watcher = plugin.shouldWatch /\ watchOk]
    /\ UNCHANGED <<localized, tree, boot, analytics, webVars, call, ret, props, prepared,
                   renderVars, fetchVars>>

\* The watcher reports a change (lines 169-177): of a source file, which
\* schedules a rebuild, or of another file, which is ignored.
FileChanges(isSource) ==
    /\ plugin.watcher
    /\ plugin.changes < MaxEvents
    /\ plugin' = IF isSource
                 THEN ScheduleRebuild([plugin EXCEPT !.changes = @ + 1, !.stale = TRUE,
                                                     !.fresh = FALSE])
                 ELSE [plugin EXCEPT !.changes = @ + 1]
    /\ UNCHANGED <<localized, tree, boot, analytics, webVars, call, ret, props, prepared,
                   renderVars, fetchVars>>

\* The rebuild timeout fires (lines 163-165).
RebuildTimeoutFires ==
    /\ plugin.rebuildTimeout
    /\ plugin' = BuildFoundation([plugin EXCEPT !.rebuildTimeout = FALSE])
    /\ UNCHANGED <<localized, tree, boot, analytics, webVars, call, ret, props, prepared,
                   renderVars, fetchVars>>

\* Vite's build settles.
BuildEnds(ok) ==
    /\ plugin.running > 0
    /\ plugin' = BuildFoundationEnds(plugin, ok)
    /\ UNCHANGED <<localized, tree, boot, analytics, webVars, call, ret, props, prepared,
                   renderVars, fetchVars>>

NextBuild ==
    \/ BuildStart
    \/ \E watchOk \in BOOLEAN : ConfigureServer(watchOk)
    \/ \E isSource \in BOOLEAN : FileChanges(isSource)
    \/ RebuildTimeoutFires
    \/ \E ok \in BOOLEAN : BuildEnds(ok)

SpecBuild == InitBuild /\ [][NextBuild]_vars

\* The same with a timeout that fires and builds that end: the timers of
\* the event loop fire, and Vite's build settles.
SpecBuildFair ==
    /\ InitBuild
    /\ [][NextBuild]_vars
    /\ WF_vars(RebuildTimeoutFires)
    /\ WF_vars(\E ok \in BOOLEAN : BuildEnds(ok))

\* ---- the Website: construction from a page list, then setActivePage calls
SiteConfigs == {SiteConfig(FALSE, <<>>, 0)} \cup {SiteConfig(TRUE, pl, 0) : pl \in PageLists}

InitWeb ==
    /\ websiteData \in SiteConfigs
    /\ website = NewWebsite(PagesOf(websiteData))
    /\ lastRoute = NoCall
    /\ before = website
    /\ uniweb = NewUniweb
    /\ dataStore = [fetcher |-> TRUE]
    /\ previous = NoPrevious
    /\ view = NoView
    /\ IdlePure
    /\ IdleRender
    /\ IdleFetch

CallSetActivePage ==
    \E r \in CallRoutes :
        /\ before' = website
        /\ website' = SetActivePage(website, r)
        /\ lastRoute' = r
        /\ UNCHANGED <<websiteData, uniweb, dataStore, previous, view,
                       pureVars, renderVars, fetchVars>>

\* A PageRenderer that leaves the active page to the effect of
\* useRememberScroll, which runs after the render.
PageRendererSyncInEffect ==
    \E path \in CallRoutes :
        /\ view' = PageRendererView(website, path)
        /\ UNCHANGED <<website, before, lastRoute>>
        /\ UNCHANGED <<websiteData, uniweb, dataStore, previous, pureVars, renderVars, fetchVars>>

\* PageRenderer rendered at the location `path`: it looks the page up, makes
\* it the active page when there is one, and returns the Layout of the page
\* or the not-found view.
PageRenderer ==
    \E path \in CallRoutes :
        /\ view' = PageRendererView(website, path)
        /\ IF GetPage(website, path) # 0
           THEN /\ before' = website
                /\ website' = SetActivePage(website, path)
                /\ lastRoute' = path
           ELSE UNCHANGED <<website, before, lastRoute>>
        /\ UNCHANGED <<websiteData, uniweb, dataStore, previous, pureVars, renderVars, fetchVars>>

NextWeb ==
    \/ CallSetActivePage
    \/ PageRenderer

SpecWeb == InitWeb /\ [][NextWeb]_vars

\* ---- live editing: the Website is rebuilt from edited configurations
\* while pages render and the active page changes
EditedPageLists ==
    {<<>>, <<"/">>, <<"/about", "/">>, <<HeaderRoute, "/about", "/about">>}
EditedConfigs(edits) ==
    {SiteConfig(FALSE, <<>>, edits)} \cup {SiteConfig(TRUE, pl, edits) : pl \in EditedPageLists}

InitRebuild ==
    /\ websiteData \in EditedConfigs(0)
    /\ website = NewWebsite(PagesOf(websiteData))
    /\ lastRoute = NoCall
    /\ before = website
    /\ uniweb = NewUniweb
    /\ dataStore = [fetcher |-> TRUE]
    /\ previous = NoPrevious
    /\ view = NoView
    /\ IdlePure
    /\ IdleRender
    /\ IdleFetch

\* rebuildWebsite(configData) after a content edit. No setActivePage call has
\* been made on the new Website.
CallRebuildWebsite ==
    /\ websiteData.edits < MaxRebuilds
    /\ \E c \in EditedConfigs(websiteData.edits + 1) :
          LET r == RebuildWebsite(uniweb, website, dataStore, c)
          IN  /\ websiteData' = c
              /\ uniweb' = r.uniweb
              /\ website' = r.website
              /\ dataStore' = r.dataStore
              /\ previous' = r.previous
              /\ before' = r.website
    /\ lastRoute' = NoCall
    /\ UNCHANGED <<view, pureVars, renderVars, fetchVars>>

NextRebuild ==
    \/ CallRebuildWebsite
    \/ CallSetActivePage
    \/ PageRenderer

SpecRebuild == InitRebuild /\ [][NextRebuild]_vars

\* ---- the pure functions of the data layer, each called once on arguments
\* drawn from the bounded sets
MergeCalls ==
    {[IdleCall EXCEPT !.kind = "mergeIntoData", !.current = c, !.fetched = f,
                      !.schema = s, !.merge = m] :
        c \in DataMaps, f \in Values, s \in Schemas, m \in BOOLEAN}
EntityCalls ==
    {[IdleCall EXCEPT !.kind = "entity", !.current = c, !.entity = e] :
        c \in DataMaps, e \in DataMaps}
FetchCalls ==
    {[IdleCall EXCEPT !.kind = "executeFetchClient", !.config = cf, !.resp = r] :
        cf \in Configs \cup {NoConfig}, r \in Responses}

InitPure ==
    /\ call \in MergeCalls \cup EntityCalls \cup FetchCalls
    /\ ret = NoRet
    /\ props = IdlePropsCall
    /\ prepared = NotPrepared
    /\ IdleMore
    /\ IdleWeb
    /\ IdleRender
    /\ IdleFetch

CallMergeIntoData ==
    /\ call.kind = "mergeIntoData"
    /\ ~ret.done
    /\ ret' = [ret EXCEPT !.done = TRUE,
                  !.data = MergeIntoData(call.current, call.fetched, call.schema, call.merge)]
    /\ UNCHANGED <<call, props, prepared, moreVars, webVars, renderVars, fetchVars>>

CallMergeEntityData ==
    /\ call.kind = "entity"
    /\ ~ret.done
    /\ ret' = [ret EXCEPT !.done = TRUE,
                  !.data = MergeEntityData(call.current, call.entity)]
    /\ UNCHANGED <<call, props, prepared, moreVars, webVars, renderVars, fetchVars>>

CallExecuteFetchClient ==
    /\ call.kind = "executeFetchClient"
    /\ ~ret.done
    /\ ret' = [ret EXCEPT !.done = TRUE,
                  !.result = ExecuteFetchClient(call.config, call.resp)]
    /\ UNCHANGED <<call, props, prepared, moreVars, webVars, renderVars, fetchVars>>

NextPure ==
    \/ CallMergeIntoData
    \/ CallMergeEntityData
    \/ CallExecuteFetchClient

SpecPure == InitPure /\ [][NextPure]_vars

\* ---- rendering a page: Layout, then the block renderers, with the local
\* state operations of the rendered components
InitRender ==
    /\ page \in Pages
    /\ blocks = [b \in BlockIds |-> NewBlock(ComponentOf[b])]
    /\ laidOut = FALSE
    /\ lastOp = [op |-> "none", block |-> "0"]
    /\ IdleWeb
    /\ IdlePure
    /\ IdleFetch

\* Layout({ page, website }): initializes the blocks of the five groups and
\* returns the elements of the areas. It runs again whenever the page renders.
Layout ==
    /\ blocks' = InitializeAllBlocks(blocks, page)
    /\ laidOut' = TRUE
    /\ lastOp' = [op |-> "layout", block |-> "0"]
    /\ UNCHANGED <<page, webVars, pureVars, fetchVars>>

\* Whether React may render Section b: Blocks renders the Sections of the
\* placed areas once Layout returned, ChildBlocks renders the child Sections
\* of a Section whose component rendered. An error thrown while rendering
\* unmounts the page: the only error boundary is around the application.
MayRender(b) ==
    /\ \A c \in BlockIds : blocks[c].view # "error"
    /\ \/ laidOut /\ b \in PlacedBlocks(page)
       \/ \E parent \in BlockIds :
             /\ b \in SeqSet(page.childBlocks[parent])
             /\ blocks[parent].rendered
             /\ blocks[parent].Component # NoComponent

\* BlockRenderer({ block }): initComponent, then the placeholder when the
\* component was not found, else the component renders; a component that
\* keeps local state calls block.useBlockState with its initial state.
BlockRenderer(b) ==
    /\ MayRender(b)
    /\ LET inited == [InitComponent(blocks[b]) EXCEPT
                         !.rendered = TRUE,
                         !.view = IF @ = "error" THEN "error"
                                  ELSE IF InitComponent(blocks[b]).Component = NoComponent
                                  THEN "placeholder" ELSE "component"]
           args   == IF inited.Component = NoComponent THEN {}
                     ELSE Foundation[inited.Component].hookArgs
       IN  \/ /\ args = {}
              /\ blocks' = [blocks EXCEPT ![b] = inited]
           \/ \E arg \in args :
                 blocks' = [blocks EXCEPT ![b] = UseBlockState(inited, arg)]
    /\ lastOp' = [op |-> "render", block |-> b]
    /\ UNCHANGED <<page, laidOut, webVars, pureVars, fetchVars>>

NewStates == {"s2", "s3"}

\* A mounted component updates its local state with the setter of
\* useBlockState.
UpdateState(b) ==
    /\ blocks[b].hook # NoHook
    /\ \E v \in NewStates : blocks' = [blocks EXCEPT ![b] = SetBlockState(blocks[b], v)]
    /\ lastOp' = [op |-> "setState", block |-> b]
    /\ UNCHANGED <<page, laidOut, webVars, pureVars, fetchVars>>

\* block.initState() called to reset a Section of the page.
ResetState(b) ==
    /\ b \in PageBlocks(page)
    /\ blocks[b].initCalled
    /\ blocks' = [blocks EXCEPT ![b] = InitState(blocks[b])]
    /\ lastOp' = [op |-> "initState", block |-> b]
    /\ UNCHANGED <<page, laidOut, webVars, pureVars, fetchVars>>

NextRender ==
    \/ Layout
    \/ \E b \in BlockIds : BlockRenderer(b)
    \/ \E b \in BlockIds : UpdateState(b)
    \/ \E b \in BlockIds : ResetState(b)

SpecRender == InitRender /\ [][NextRender]_vars

\* ---- entity data: Sections mount, render, are replaced on navigation,
\* fetch and unmount, and the retrievals settle in any order. The renderers
\* are given at most MaxMounts Sections in all.
RECURSIVE SectionsRendered(_, _)
SectionsRendered(c, S) ==
    IF S = {} THEN 0
    ELSE LET s == CHOOSE x \in S : TRUE
         IN  c[s].mounts + SectionsRendered(c, S \ {s})

Descriptors == [key : DataKeys, hasFetch : BOOLEAN]

InitFetch ==
    /\ renderer \in {"entity", "runtime"}
    /\ fetchOf \in [Sections -> Descriptors]
    /\ comp = [s \in Sections |-> Unmounted(0)]
    /\ dataLoading = [s \in Sections |-> FALSE]
    /\ flights = {}
    /\ retrievals = [k \in DataKeys |-> 0]
    \* setupUniweb pre-populates the store from the data fetched at build time
    /\ \E fd \in FetchedData :
          /\ renderer = "runtime" => fd = NoFetchedData
          /\ store = SetupUniweb(fd).store
          /\ setup = [steps |-> SetupUniweb(fd).steps,
                      fetched |-> SetupUniweb(fd).fetched,
                      fetcher |-> SetupUniweb(fd).fetcher]
    /\ lastSettle = [op |-> "none", key |-> "team", resp |-> DefaultResp]
    /\ shown = [s \in Sections |-> 0]
    /\ IdleWeb
    /\ IdlePure
    /\ IdleRender

\* BlockRenderer, entity variant: a render of Section s. The first render
\* mounts the component and runs its effects, which call entityStore.fetch
\* when resolve returned pending.
RenderEntity(s) ==
    /\ renderer = "entity"
    /\ LET k     == fetchOf[s].key
           entry == ResolveEntry(store[k], fetchOf[s].hasFetch)
           fetch == entry.status = "pending"
       IN  \/ /\ ~comp[s].mounted
              /\ SectionsRendered(comp, Sections) < MaxMounts
              /\ comp' = [comp EXCEPT ![s] =
                            [Unmounted(comp[s].mounts + 1) EXCEPT !.mounted = TRUE]]
              /\ store' = [store EXCEPT ![k] = IF fetch THEN FetchEntry(entry) ELSE entry]
              /\ flights' = IF fetch
                            THEN flights \cup {Flight(k, s, comp[s].mounts + 1)}
                            ELSE flights
              /\ retrievals' = IF fetch /\ ~entry.inflight
                               THEN [retrievals EXCEPT ![k] = @ + 1]
                               ELSE retrievals
              /\ dataLoading' = [dataLoading EXCEPT ![s] = EntityDataLoading(entry, Null)]
              /\ shown' = [shown EXCEPT ![s] = 0]
           \/ /\ comp[s].mounted
              /\ comp' = [comp EXCEPT ![s].needsRender = FALSE]
              /\ store' = [store EXCEPT ![k] = entry]
              /\ dataLoading' = [dataLoading EXCEPT ![s] =
                                    EntityDataLoading(entry, comp[s].data)]
              /\ shown' = [shown EXCEPT ![s] = EntityShown(entry, comp[s])]
              /\ UNCHANGED <<flights, retrievals>>
    /\ UNCHANGED <<renderer, fetchOf, lastSettle, setup, webVars, pureVars, renderVars>>

\* BlockRenderer, entity variant, rendered with another block after a
\* navigation (the renderer of a position of the page keeps its React state):
\* the render uses the asyncData it holds, then the cleanup of the fetch
\* effect runs, the first effect resets asyncData and the fetch effect runs
\* for the new Section.
NavigateEntity(s) ==
    /\ renderer = "entity"
    /\ comp[s].mounted
    /\ SectionsRendered(comp, Sections) < MaxMounts
    /\ \E d \in Descriptors :
          LET k     == d.key
              entry == ResolveEntry(store[k], d.hasFetch)
              fetch == entry.status = "pending"
          IN  /\ fetchOf' = [fetchOf EXCEPT ![s] = d]
              /\ shown' = [shown EXCEPT ![s] = EntityShown(entry, comp[s])]
              /\ dataLoading' = [dataLoading EXCEPT ![s] =
                                    EntityDataLoading(entry, comp[s].data)]
              /\ comp' = [comp EXCEPT ![s] =
                            [Unmounted(comp[s].mounts + 1) EXCEPT
                                !.mounted = TRUE,
                                !.needsRender = comp[s].data # Null]]
              /\ store' = [store EXCEPT ![k] = IF fetch THEN FetchEntry(entry) ELSE entry]
              /\ flights' = CancelFlights(flights, s)
                            \cup IF fetch THEN {Flight(k, s, comp[s].mounts + 1)} ELSE {}
              /\ retrievals' = IF fetch /\ ~entry.inflight
                               THEN [retrievals EXCEPT ![k] = @ + 1]
                               ELSE retrievals
    /\ UNCHANGED <<renderer, lastSettle, setup, webVars, pureVars, renderVars>>

\* BlockRenderer, runtime fetch variant: a render of Section s. The first
\* render mounts the component and runs its effect, which calls
\* executeFetchClient when the descriptor says prerender: false.
RenderRuntime(s) ==
    /\ renderer = "runtime"
    /\ LET k == fetchOf[s].key
           shouldFetchAtRuntime == fetchOf[s].hasFetch
       IN  \/ /\ ~comp[s].mounted
              /\ SectionsRendered(comp, Sections) < MaxMounts
              /\ LET fresh == [Unmounted(comp[s].mounts + 1) EXCEPT !.mounted = TRUE]
                 IN  /\ comp' = [comp EXCEPT ![s] = fresh]
                     /\ dataLoading' = [dataLoading EXCEPT ![s] =
                           RuntimeDataLoading(shouldFetchAtRuntime, fresh, dataLoading[s])]
              /\ flights' = IF shouldFetchAtRuntime
                            THEN flights \cup {Flight(k, s, comp[s].mounts + 1)}
                            ELSE flights
              /\ retrievals' = IF shouldFetchAtRuntime
                               THEN [retrievals EXCEPT ![k] = @ + 1]
                               ELSE retrievals
              /\ shown' = [shown EXCEPT ![s] = 0]
           \/ /\ comp[s].mounted
              /\ comp' = [comp EXCEPT ![s].needsRender = FALSE]
              /\ dataLoading' = [dataLoading EXCEPT ![s] =
                    RuntimeDataLoading(shouldFetchAtRuntime, comp[s], dataLoading[s])]
              /\ shown' = [shown EXCEPT ![s] =
                              RuntimeShown(shouldFetchAtRuntime, k, comp[s])]
              /\ UNCHANGED <<flights, retrievals>>
    /\ UNCHANGED <<renderer, fetchOf, store, lastSettle, setup, webVars, pureVars, renderVars>>

\* BlockRenderer, runtime fetch variant, rendered with another block after a
\* navigation: runtimeData and fetchError are kept (nothing resets them), the
\* render merges runtimeData under the new descriptor's schema key, then the
\* effect's cleanup runs and the effect runs for the new descriptor.
NavigateRuntime(s) ==
    /\ renderer = "runtime"
    /\ comp[s].mounted
    /\ SectionsRendered(comp, Sections) < MaxMounts
    /\ \E d \in Descriptors :
          LET shouldFetchAtRuntime == d.hasFetch
          IN  /\ fetchOf' = [fetchOf EXCEPT ![s] = d]
              /\ shown' = [shown EXCEPT ![s] =
                              RuntimeShown(shouldFetchAtRuntime, d.key, comp[s])]
              /\ dataLoading' = [dataLoading EXCEPT ![s] =
                    RuntimeDataLoading(shouldFetchAtRuntime, comp[s], dataLoading[s])]
              /\ comp' = [comp EXCEPT ![s].mounts = @ + 1, ![s].needsRender = FALSE]
              /\ flights' = CancelFlights(flights, s)
                            \cup IF shouldFetchAtRuntime
                                 THEN {Flight(d.key, s, comp[s].mounts + 1)} ELSE {}
              /\ retrievals' = IF shouldFetchAtRuntime
                               THEN [retrievals EXCEPT ![d.key] = @ + 1]
                               ELSE retrievals
    /\ UNCHANGED <<renderer, store, lastSettle, setup, webVars, pureVars, renderVars>>

\* Section s leaves the page: the cleanups of its effects run and its React
\* state is dropped. The fetches it started run to completion.
Unmount(s) ==
    /\ comp[s].mounted
    /\ comp' = [comp EXCEPT ![s] = Unmounted(comp[s].mounts)]
    /\ flights' = CancelFlights(flights, s)
    /\ shown' = [shown EXCEPT ![s] = 0]
    /\ UNCHANGED <<renderer, fetchOf, dataLoading, retrievals, store, lastSettle, setup,
                   webVars, pureVars, renderVars>>

\* The retrieval of key k of the EntityStore settles: the registered fetcher,
\* executeFetchClient, resolves; the store records the outcome and every
\* caller attached to the retrieval gets the same result.
EntitySettles(k) ==
    /\ renderer = "entity"
    /\ store[k].inflight
    /\ \E resp \in FetchResponses :
          LET result == ExecuteFetchClient(ConfigOf(k), resp)
              live(s) == {f \in flights : f.key = k /\ f.sec = s /\ ~f.cancelled}
          IN  /\ store' = [store EXCEPT ![k] = SettleEntry(store[k], result)]
              /\ comp' = [s \in Sections |->
                            IF live(s) # {}
                            THEN EntityThen(comp[s], FALSE, result,
                                            (CHOOSE f \in live(s) : TRUE).mount)
                            ELSE EntityThen(comp[s], TRUE, result, 0)]
              /\ lastSettle' = [op |-> "settle", key |-> k, resp |-> resp]
    /\ flights' = {f \in flights : f.key # k}
    /\ retrievals' = [retrievals EXCEPT ![k] = @ - 1]
    /\ UNCHANGED <<renderer, fetchOf, dataLoading, shown, setup, webVars, pureVars,
                   renderVars>>

\* A fetch of the runtime variant settles: executeFetchClient resolves and
\* doFetch continues after its await.
RuntimeSettles(f) ==
    /\ renderer = "runtime"
    /\ f \in flights
    /\ \E resp \in FetchResponses :
          LET result == ExecuteFetchClient(ConfigOf(f.key), resp)
          IN  /\ comp' = [comp EXCEPT ![f.sec] =
                            RuntimeThen(comp[f.sec], f.cancelled, result, f.mount, f.key)]
              /\ lastSettle' = [op |-> "settle", key |-> f.key, resp |-> resp]
    /\ flights' = flights \ {f}
    /\ retrievals' = [retrievals EXCEPT ![f.key] = @ - 1]
    /\ UNCHANGED <<renderer, fetchOf, dataLoading, store, shown, setup, webVars, pureVars,
                   renderVars>>

AllFlights ==
    [key : DataKeys, sec : Sections, mount : 1..MaxMounts, cancelled : BOOLEAN]

NextFetch ==
    \/ \E s \in Sections : RenderEntity(s)
    \/ \E s \in Sections : NavigateEntity(s)
    \/ \E s \in Sections : RenderRuntime(s)
    \/ \E s \in Sections : NavigateRuntime(s)
    \/ \E s \in Sections : Unmount(s)
    \/ \E k \in DataKeys : EntitySettles(k)
    \/ \E f \in AllFlights : RuntimeSettles(f)

SpecFetch == InitFetch /\ [][NextFetch]_vars

\* ---- prepare-props.js: one call of one of its functions. prepareProps is
\* called on the blocks whose data has, under team, nothing or one object
\* without nested fields.
PropsCalls ==
    {[IdlePropsCall EXCEPT !.kind = "guaranteeContentStructure", !.content = c] :
        c \in ContentSamples}
    \cup {[IdlePropsCall EXCEPT !.kind = "applySchemas", !.data = d, !.schemas = s] :
            d \in DataSamples, s \in SchemaSets}
    \cup {[IdlePropsCall EXCEPT !.kind = "prepareProps", !.data = d, !.schemas = s] :
            d \in {x \in DataSamples : /\ x.m["team"].t \in {"undefined", "object"}
                                       /\ x.m["team"].f["tags"].t = "undefined"},
            s \in SchemaSets}

InitProps ==
    /\ props \in PropsCalls
    /\ prepared = NotPrepared
    /\ IdleMore
    /\ call = IdleCall
    /\ ret = NoRet
    /\ IdleWeb
    /\ IdleRender
    /\ IdleFetch

CallGuaranteeContentStructure ==
    /\ props.kind = "guaranteeContentStructure"
    /\ ~prepared.done
    /\ LET content == GuaranteeContentStructure(props.content)
       IN  prepared' = [prepared EXCEPT !.done = TRUE, !.threw = content.threw,
                                        !.content = content]
    /\ UNCHANGED <<props, call, ret, moreVars, webVars, renderVars, fetchVars>>

CallApplySchemas ==
    /\ props.kind = "applySchemas"
    /\ ~prepared.done
    /\ prepared' = [prepared EXCEPT !.done = TRUE,
                       !.threw = SchemasThrow(props.data, props.schemas),
                       !.data = ApplySchemas(props.data, props.schemas)]
    /\ UNCHANGED <<props, call, ret, moreVars, webVars, renderVars, fetchVars>>

CallPrepareProps ==
    /\ props.kind = "prepareProps"
    /\ ~prepared.done
    /\ LET result == PrepareProps(props.data, props.schemas)
       IN  /\ prepared' = [prepared EXCEPT !.done = TRUE, !.threw = result.threw,
                                            !.data = result.data]
           /\ props' = [props EXCEPT !.data = result.block]
    /\ UNCHANGED <<call, ret, moreVars, webVars, renderVars, fetchVars>>

NextProps ==
    \/ CallGuaranteeContentStructure
    \/ CallApplySchemas
    \/ CallPrepareProps

SpecProps == InitProps /\ [][NextProps]_vars

(***************************************************************************)
(* Claims                                                                  *)
(***************************************************************************)
\* C5 as stated: in every reachable state of a Website exactly one Page is
\* active, it is one of the Website's pages, and right after construction it
\* is the page routed "/".
C5_OneActiveRootPage ==
    /\ website.activePage \in 1..Len(website.pages)
    /\ lastRoute = NoCall => website.pages[website.activePage].route = "/"

\* C5 amended: a Website with at least one regular page has exactly one
\* active Page, one of its pages; right after construction it is the first
\* page routed "/" or "/index", or the first page when no page has such a
\* route. A Website with no regular page has no active page.
C5_ActivePage ==
    LET pages == website.pages
        a     == website.activePage
    IN  /\ Len(pages) = 0 => a = 0
        /\ Len(pages) > 0 => a \in 1..Len(pages)
        /\ (lastRoute = NoCall /\ Len(pages) > 0) =>
              IF \E i \in 1..Len(pages) : pages[i].route \in HomeRoutes
              THEN /\ pages[a].route \in HomeRoutes
                   /\ \A j \in 1..(a - 1) : pages[j].route \notin HomeRoutes
              ELSE a = 1

\* A setActivePage call has moved the active page away from the default.
C5_Witness ==
    /\ lastRoute \notin {NoCall, "/missing"}
    /\ Len(website.pages) >= 2
    /\ website.activePage = 2
    /\ before.activePage = 1

\* C6: setActivePage(route) is idempotent (a second call with the same route
\* changes nothing), and for a route that matches no page it leaves the
\* active page and every other field of the Website unchanged.
C6_SetActivePageIdempotent ==
    lastRoute # NoCall =>
        /\ SetActivePage(website, lastRoute) = website
        /\ GetPage(before, lastRoute) = 0 => website = before

\* setActivePage was called with a route no page has, on a Website with an
\* active page.
C6_Witness ==
    /\ lastRoute # NoCall
    /\ GetPage(before, lastRoute) = 0
    /\ before.activePage # 0
    /\ website = before

\* C7 as stated: whenever fetched data (entity data, or the data a Section
\* fetched at runtime) is merged into a Section's content data map, every key
\* the Section's own content defines keeps its authored value.
C7_AuthoredKeysKept ==
    (/\ ret.done
     /\ \/ call.kind = "entity"
        \/ call.kind = "mergeIntoData" /\ Truthy(call.fetched)) =>
        \A k \in DataKeys :
            call.current.m[k].t # "undefined" => ret.data.m[k] = call.current.m[k]

\* C7 amended: when entity data resolved by the EntityStore is merged into a
\* Section's content data map, every key the Section's own content defines
\* keeps its authored value and entity data only fills the keys that are
\* absent; data the Section fetched at runtime is stored by mergeIntoData under
\* the descriptor's schema key, where it may replace the authored value, and
\* every other authored key is kept.
C7_EntityDataFillsGaps ==
    ret.done =>
        /\ (call.kind = "entity" /\ call.entity.present) =>
              \A k \in DataKeys :
                  ret.data.m[k] = IF call.current.m[k].t # "undefined"
                                  THEN call.current.m[k]
                                  ELSE call.entity.m[k]
        /\ (call.kind = "entity" /\ ~call.entity.present) => ret.data = call.current
        /\ call.kind = "mergeIntoData" =>
              \A k \in DataKeys \ {call.schema} :
                  call.current.m[k].t # "undefined" => ret.data.m[k] = call.current.m[k]

\* Entity data that defines an authored key differently and a key the Section
\* does not have was merged.
C7_Witness ==
    /\ ret.done
    /\ call.kind = "entity"
    /\ call.current.m["team"] = Arr(<<1>>)
    /\ call.entity.m["team"] = Arr(<<2>>)
    /\ call.current.m["news"] = Undefined
    /\ call.entity.m["news"] = Scalar
    /\ ret.data.m["team"] = Arr(<<1>>)
    /\ ret.data.m["news"] = Scalar

\* What C8 says is stored under the schema key.
C8_Stored(existing, fetched, merge) ==
    IF merge /\ existing.t = "array" /\ fetched.t = "array"
    THEN Arr(existing.a \o fetched.a)
    ELSE IF merge /\ existing.t = "object" /\ fetched.t = "object"
         THEN Obj([k \in InnerKeys |->
                     IF fetched.o[k] # 0 THEN fetched.o[k] ELSE existing.o[k]])
         ELSE fetched

\* C8 as stated: mergeIntoData(current, fetched, schema, merge) stores under
\* the schema key the concatenation existing ++ fetched (merge, both arrays),
\* the shallow merge with fetched keys winning (merge, both objects), and the
\* fetched value itself in every other case; all other keys are kept.
C8_MergeIntoDataStores ==
    (ret.done /\ call.kind = "mergeIntoData") =>
        /\ call.schema \in DataKeys
        /\ ret.data.present
        /\ ret.data.m[call.schema] =
              C8_Stored(call.current.m[call.schema], call.fetched, call.merge)
        /\ \A k \in DataKeys \ {call.schema} : ret.data.m[k] = call.current.m[k]

\* C8 amended: when the fetched value is neither null nor undefined and the
\* schema key is not empty, mergeIntoData stores under the schema key what C8
\* says and keeps all other keys; when the fetched value is null or undefined
\* or the schema key is missing it returns the current data map unchanged.
C8_MergeIntoDataStoresUnlessNull ==
    (ret.done /\ call.kind = "mergeIntoData") =>
        IF call.fetched.t \in {"null", "undefined"} \/ call.schema = ""
        THEN ret.data = call.current
        ELSE /\ ret.data.present
             /\ ret.data.m[call.schema] =
                   C8_Stored(call.current.m[call.schema], call.fetched, call.merge)
             /\ \A k \in DataKeys \ {call.schema} : ret.data.m[k] = call.current.m[k]

\* The scenario of the spec: merge mode, team = [Ann] and fetched [Bo] give
\* [Ann, Bo], next to another key that is kept.
C8_Witness ==
    /\ ret.done
    /\ call.kind = "mergeIntoData"
    /\ call.merge
    /\ call.schema = "team"
    /\ call.current.m["team"] = Arr(<<1>>)
    /\ call.current.m["news"] = Scalar
    /\ call.fetched = Arr(<<2>>)
    /\ ret.data.m["team"] = Arr(<<1, 2>>)
    /\ ret.data.m["news"] = Scalar

\* The failures C9 names: no path and no url, the network fails, the response
\* is not OK, or the body cannot be read (as JSON when it is declared JSON).
C9_Failure ==
    \/ call.config.path = "" /\ call.config.url = ""
    \/ call.resp.network = "reject"
    \/ ~call.resp.ok
    \/ call.resp.body.kind = "readError"
    \/ call.resp.json /\ call.resp.body.kind = "text"

\* C9: executeFetchClient resolves and never rejects; for a fetch descriptor
\* whose retrieval fails the resolved value carries an error field, and on
\* success it carries none.
C9_FetchNeverThrows ==
    (ret.done /\ call.kind = "executeFetchClient") =>
        /\ ret.result.settled = "resolved"
        /\ call.config.given => (ret.result.hasError <=> C9_Failure)

\* A descriptor with a path was fetched, the response was not OK, and the
\* call resolved with an error field.
C9_Witness ==
    /\ ret.done
    /\ call.kind = "executeFetchClient"
    /\ call.config.given
    /\ call.config.path # ""
    /\ call.resp.network = "ok"
    /\ ~call.resp.ok
    /\ ret.result.settled = "resolved"
    /\ ret.result.hasError

\* C3: when a page is laid out, initComponent has been called on every
\* Section of every area, nested child Sections included, before the render
\* of any Section of the page begins: no Section is rendered while another
\* Section of the page is uninitialized.
C3_AllInitializedBeforeRender ==
    \A b \in PageBlocks(page) :
        blocks[b].rendered => \A c \in PageBlocks(page) : blocks[c].initCalled

\* One step of a Section, as C4 allows it.
C4_Step(b) ==
    /\ blocks[b].startState # NullState =>
          blocks'[b].startState = blocks[b].startState
    /\ (blocks[b].Component = NoComponent /\ blocks'[b].Component # NoComponent) =>
          /\ DeclaredState(blocks'[b].Component) # NullState =>
                blocks'[b].startState = DeclaredState(blocks'[b].Component)
          /\ blocks'[b].state = blocks'[b].startState
    /\ (lastOp'.op = "initState" /\ lastOp'.block = b) =>
          /\ blocks'[b].state = blocks'[b].startState
          /\ blocks'[b].hook # NoHook => blocks'[b].react = blocks'[b].startState

\* C4: a Section's start state is captured once: when initComponent resolves
\* the component it is the component's declared default state, and once it is
\* set no initComponent, useBlockState, state update or initState changes it;
\* the initial state and every reset set the Section's state to the start
\* state.
C4_StartStateCapturedOnce == [][\A b \in BlockIds : C4_Step(b)]_vars

\* A Section whose start state came from its component was updated and then
\* reset to that start state.
C4_Witness ==
    /\ lastOp = [op |-> "initState", block |-> "0"]
    /\ blocks["0"].Component = "Hero"
    /\ blocks["0"].startState = "d1"
    /\ blocks["0"].hook = "d1"
    /\ blocks["0"].state = "d1"
    /\ blocks["0"].react = "d1"
    /\ blocks["0_0"].startState = "s1"
    /\ blocks["0_0"].state = "s3"

\* C1: for every cache key, at most one underlying retrieval for that key is
\* in flight at any time, whatever Sections call fetch and in whatever order:
\* calls for a key with a retrieval in flight attach to it.
C1_OneRetrievalPerKey == \A k \in DataKeys : retrievals[k] <= 1

\* Whether the network answer is a failed retrieval of a descriptor that has
\* a path: the fetch rejects, the response is not OK, or the body cannot be
\* read (as JSON when it is declared JSON).
C2_Failed(resp) ==
    \/ resp.network = "reject"
    \/ ~resp.ok
    \/ resp.body.kind = "readError"
    \/ resp.json /\ resp.body.kind = "text"

\* One step of the cache entry of key k, as C2 allows it.
C2_Step(k) ==
    LET a == store[k].status
        b == store'[k].status
        settled == store[k].inflight /\ ~store'[k].inflight
    IN  /\ a = "absent" => b \in {"absent", "pending"}
        /\ a = "ready" => b = "ready"
        /\ (a = "pending" /\ b # "pending") => settled
        /\ settled =>
              /\ a = "pending"
              /\ lastSettle'.key = k
              /\ b = IF C2_Failed(lastSettle'.resp) THEN "absent" ELSE "ready"

C10_Outstanding(s) == \E f \in flights : f.sec = s /\ ~f.cancelled

\* C10 (for the runtime fetch variant): once a mounted Section with a fetch
\* descriptor has rendered and no further render is scheduled, its loading
\* flag is true exactly while its fetch is outstanding: true on the renders
\* during the fetch, false on the renders after the fetch completed with data
\* or with an error, and not left true once no fetch is outstanding.
C10_LoadingFlagTracksFetch ==
    \A s \in Sections :
        (/\ renderer = "runtime"
         /\ comp[s].mounted
         /\ fetchOf[s].hasFetch
         /\ ~comp[s].needsRender) =>
            (dataLoading[s] <=> C10_Outstanding(s))

\* C11 as stated: a result fetched for a Section that the renderer no longer
\* renders is never applied: whenever a renderer is mounted, the fetched data
\* its last render merged into the content was fetched for the Section it
\* renders now (or the render merged no fetched data), under every
\* interleaving of navigation, unmount and fetch completion.
C11_StaleResultNeverShown ==
    \A s \in Sections : comp[s].mounted => shown[s] \in {0, comp[s].mounts}

\* C12: every entry of configData.fetchedData is stored by setupUniweb before
\* it registers the fetcher (and so before the first render); from then on
\* the key is ready in every state, no retrieval for it is ever in flight, no
\* fetch call for it is made, and a Section rendered on it is not loading.
C12_BuildTimeDataIsReady ==
    renderer = "entity" =>
        \A k \in setup.fetched :
            /\ \E i \in DOMAIN setup.steps : setup.steps[i] = Step("set", k)
            /\ \A i, j \in DOMAIN setup.steps :
                  setup.steps[i].op = "set" /\ setup.steps[j].op = "registerFetcher"
                      => i < j
            /\ setup.fetcher
            /\ store[k].status = "ready"
            /\ store[k].data = Obj(EmptyObj)
            /\ retrievals[k] = 0
            /\ \A f \in flights : f.key # k
            /\ \A s \in Sections :
                  comp[s].mounted /\ fetchOf[s].key = k => ~dataLoading[s]

\* C12 witness: a Section with a fetch descriptor is rendered on a key stored
\* at set-up while a retrieval for another key has been made and has settled.
C12_Witness ==
    /\ renderer = "entity"
    /\ lastSettle.op = "settle"
    /\ \E s \in Sections :
          /\ comp[s].mounted
          /\ fetchOf[s].hasFetch
          /\ fetchOf[s].key \in setup.fetched
          /\ lastSettle.key # fetchOf[s].key

\* Whether Website w is a complete tree: its page routes are the routes of
\* its pages, the pages are numbered in order, and the active page is one of
\* the pages (none only when there is no page).
C13_Complete(w) ==
    /\ w.pageRoutes = [i \in 1..Len(w.pages) |-> w.pages[i].route]
    /\ \A i \in 1..Len(w.pages) : w.pages[i].id = i - 1
    /\ IF Len(w.pages) = 0 THEN w.activePage = 0 ELSE w.activePage \in 1..Len(w.pages)

C13_Step ==
    /\ C13_Complete(website')
    /\ dataStore'.fetcher
    /\ IF websiteData' # websiteData
       THEN /\ uniweb'.activeWebsite \notin {uniweb.activeWebsite, previous.id}
            /\ previous' = [id |-> uniweb.activeWebsite, site |-> website,
                            fetcher |-> dataStore.fetcher]
            /\ uniweb'.foundation = uniweb.foundation
            /\ uniweb'.foundationConfig = uniweb.foundationConfig
            /\ uniweb'.routingComponents = uniweb.routingComponents
            /\ uniweb'.iconResolver = uniweb.iconResolver
       ELSE /\ uniweb' = uniweb
            /\ previous' = previous

\* C13: a content edit replaces the Website wholesale. In every step the
\* active Website is a complete tree with its fetcher registered; a rebuild
\* makes a new Website object the active one, leaves the replaced object
\* exactly as it was, and leaves the singleton's foundation, foundation
\* configuration, routing components and icon resolver unchanged; no other
\* step touches the replaced object or the singleton.
C13_RebuildReplacesWholesale == [][C13_Step]_vars

\* C13 witness: a Website whose active page had been changed was replaced by
\* a second rebuild, and the new Website has been used since.
C13_Witness ==
    /\ websiteData.edits = 2
    /\ uniweb.activeWebsite = 3
    /\ previous.id = 2
    /\ previous.site.activePage = 2
    /\ lastRoute # NoCall

\* Whether the pages of w are the pages of the list other than the reserved
\* ones, all of them, in the order of the list, with the header and footer
\* pages set aside.
C14_KeptInOrder(w, list) ==
    LET regular == {i \in 1..Len(list) : list[i] \notin {HeaderRoute, FooterRoute}}
        nth(n)  == CHOOSE i \in regular : Cardinality({j \in regular : j < i}) = n - 1
    IN  /\ w.headerPage = (\E i \in 1..Len(list) : list[i] = HeaderRoute)
        /\ w.footerPage = (\E i \in 1..Len(list) : list[i] = FooterRoute)
        /\ Len(w.pages) = Cardinality(regular)
        /\ \A n \in 1..Len(w.pages) : w.pages[n].route = list[nth(n)]

\* C14 as stated: construction sets the header and footer pages aside, keeps
\* every other page in input order, and the active page is the page routed
\* "/", or the first regular page when no page is routed "/".
C14_ActiveIsRootOrFirst ==
    lastRoute = NoCall =>
        LET pages == website.pages
            a     == website.activePage
        IN  /\ C14_KeptInOrder(website, PagesOf(websiteData))
            /\ Len(pages) > 0 =>
                  /\ a \in 1..Len(pages)
                  /\ IF \E i \in 1..Len(pages) : pages[i].route = "/"
                     THEN pages[a].route = "/"
                     ELSE a = 1

\* C14 amended: construction sets the header and footer pages aside, keeps
\* every other page in input order, and the active page is the first page
\* routed "/" or "/index", or the first regular page when no page has such a
\* route; with no regular page there is no active page.
C14_ActiveIsHomeOrFirst ==
    lastRoute = NoCall =>
        LET pages == website.pages
            a     == website.activePage
            homes == {i \in 1..Len(pages) : pages[i].route \in {"/", "/index"}}
        IN  /\ C14_KeptInOrder(website, PagesOf(websiteData))
            /\ Len(pages) = 0 => a = 0
            /\ Len(pages) > 0 =>
                  IF homes # {}
                  THEN a \in homes /\ \A i \in homes : a <= i
                  ELSE a = 1

\* C14 witness: a Website constructed from a header page, a page routed
\* "/index" and a page routed "/": the "/index" page is the active page.
C14_Witness ==
    /\ lastRoute = NoCall
    /\ PagesOf(websiteData) = <<HeaderRoute, "/index", "/">>
    /\ website.headerPage
    /\ Len(website.pages) = 2
    /\ website.activePage = 1

\* C15: a Website constructed from a configuration without pages is an empty
\* usable tree: no pages, no active page, getPage finds no page for any
\* route, setActivePage changes nothing for any route, and PageRenderer
\* returns the not-found view for every path.
C15_AbsentPagesGiveEmptyTree ==
    ~websiteData.given =>
        /\ website.pages = <<>>
        /\ website.pageRoutes = <<>>
        /\ website.activePage = 0
        /\ website = before
        /\ view.kind \in {"none", "notFound"}
        /\ \A r \in CallRoutes :
              /\ GetPage(website, r) = 0
              /\ SetActivePage(website, r) = website
              /\ PageRendererView(website, r).kind = "notFound"

\* C15 witness: on a Website without pages setActivePage has been called and
\* PageRenderer has rendered.
C15_Witness ==
    /\ ~websiteData.given
    /\ lastRoute # NoCall
    /\ view.kind = "notFound"

C17_IsString(v) == v \in {"''", "'text'"}
C17_IsSequence(v) == v \in {"[]", "['p']"}
C17_IsMapping(v) == v = "{}"
C17_Guaranteed(c) ==
    /\ C17_IsString(c.title)
    /\ C17_IsSequence(c.paragraphs)
    /\ C17_IsMapping(c.data)

\* C17: for every raw parsed content, an absent or empty one included,
\* guaranteeContentStructure returns a content whose guaranteed fields are
\* present and type-correct: the string fields are strings, the sequence
\* fields are sequences, data is a mapping.
C17_ContentIsGuaranteed ==
    (props.kind = "guaranteeContentStructure" /\ prepared.done) =>
        /\ ~prepared.threw
        /\ C17_Guaranteed(prepared.content)

\* C18: when the items of the raw content are a sequence, the call does not
\* fail and every entry of the normalized items has every guaranteed field,
\* type-correct, whatever the entry was.
C18_ItemsAreGuaranteed ==
    (/\ props.kind = "guaranteeContentStructure"
     /\ prepared.done
     /\ props.content.kind = "object"
     /\ props.content.items.kind = "array") =>
        /\ ~prepared.threw
        /\ Len(prepared.content.items) = Len(props.content.items.entries)
        /\ \A i \in 1..Len(prepared.content.items) :
              C17_Guaranteed(prepared.content.items[i])

\* The calls of applySchemas, alone or from prepareProps, that returned.
C19_SchemasApplied ==
    /\ props.kind \in {"applySchemas", "prepareProps"}
    /\ prepared.done
    /\ ~prepared.threw

\* The objects under a key: the value itself, or the elements of a sequence,
\* as <<input, output>> pairs.
C19_Objects(vin, vout) ==
    IF vin.t = "object" THEN {<<vin, vout>>}
    ELSE IF vin.t = "array" /\ vout.t = "array" /\ Len(vin.a) = Len(vout.a)
    THEN {<<vin.a[i], vout.a[i]>> : i \in {j \in 1..Len(vin.a) : vin.a[j].t = "object"}}
    ELSE {}

\* A declared field with a default: the default when the field had no value,
\* and when it is a one-of field whose value is not among the options.
C19_FieldsCorrected(oin, oout, schema) ==
    \A x \in Fields :
        LET fieldDef == schema[x]
        IN  (fieldDef.declared /\ fieldDef.full /\ fieldDef.hasDefault
                /\ fieldDef.type = "none") =>
               /\ oin.f[x].t = "undefined" => oout.f[x] = fieldDef.default
               /\ (/\ fieldDef.hasOptions
                   /\ ~(oin.f[x].t = "string" /\ oin.f[x].s \in fieldDef.options))
                     => oout.f[x] = fieldDef.default

\* The same rule inside the nested objects and sequences of a declared field,
\* starting from the field's default when the field had no value.
C19_NestedCorrected(oin, oout, schema) ==
    \A x \in Fields :
        LET fieldDef == schema[x]
            base == IF oin.f[x].t = "undefined" /\ fieldDef.hasDefault
                    THEN fieldDef.default ELSE oin.f[x]
        IN  (fieldDef.declared /\ fieldDef.full /\ fieldDef.type \in {"object", "array"}
                /\ base.t = fieldDef.type) =>
               /\ oout.f[x].t = base.t
               /\ Len(oout.f[x].a) = Len(base.a)
               /\ \A pair \in C19_Objects(base, oout.f[x]) :
                     C19_FieldsCorrected(pair[1], pair[2], fieldDef.sub)

\* C19: when the schemas declare a sub-schema for a key of the data, every
\* object under that key (each element of a sequence) has, for every declared
\* field with a default, the default if the field had no value and the default
\* if it is a one-of field whose value is not an allowed option, and the same
\* inside nested object and sequence sub-schemas; the corrected call returns.
C19_DefaultsApplied ==
    C19_SchemasApplied =>
        \A k \in DataKeys :
            (props.schemas.given /\ props.schemas.has[k] /\ props.data.present) =>
                \A pair \in C19_Objects(props.data.m[k], prepared.data.m[k]) :
                    /\ C19_FieldsCorrected(pair[1], pair[2], props.schemas.of[k])
                    /\ C19_NestedCorrected(pair[1], pair[2], props.schemas.of[k])

\* A call that corrected a one-of field and defaulted a field of a nested
\* element.
C19_Witness ==
    /\ C19_SchemasApplied
    /\ props.kind = "applySchemas"
    /\ props.schemas.has["team"]
    /\ props.data.m["team"].t = "object"
    /\ props.data.m["team"].f["status"] = DataVal("string", "z", NoLeaves, <<>>)
    /\ prepared.data.m["team"].f["status"] = DataVal("string", "a", NoLeaves, <<>>)
    /\ props.data.m["team"].f["tags"].t = "array"
    /\ Len(props.data.m["team"].f["tags"].a) = 1
    /\ props.data.m["team"].f["tags"].a[1].t = "object"
    /\ props.data.m["team"].f["tags"].a[1].f["status"].t = "undefined"
    /\ prepared.data.m["team"].f["tags"].a[1].f["status"] = DataVal("string", "a", <<>>, <<>>)

\* No field of an object is removed, and the fields the schema does not
\* declare keep their values.
C20_FieldsKept(oin, oout, schema) ==
    \A x \in Fields :
        /\ oin.f[x].t # "undefined" => oout.f[x].t # "undefined"
        /\ ~schema[x].declared => oout.f[x] = oin.f[x]

C20_NestedKept(oin, oout, schema) ==
    \A x \in Fields :
        (schema[x].declared /\ oin.f[x].t \in {"object", "array"}) =>
            \A pair \in C19_Objects(oin.f[x], oout.f[x]) :
                \A y \in Fields :
                    /\ pair[1].f[y].t # "undefined" => pair[2].f[y].t # "undefined"
                    /\ ~(schema[x].full /\ schema[x].type = oin.f[x].t
                            /\ schema[x].sub[y].declared)
                          => pair[2].f[y] = pair[1].f[y]

\* C20: applying the schemas is additive: every key of the data is kept, a
\* key without a schema is returned as given, and under a key with a schema
\* no field of an object is removed and every field the schema does not
\* declare keeps its value.
C20_SchemasAreAdditive ==
    C19_SchemasApplied =>
        \A k \in DataKeys :
            /\ prepared.data.m[k].t = props.data.m[k].t
            /\ Len(prepared.data.m[k].a) = Len(props.data.m[k].a)
            /\ ~(props.schemas.given /\ props.schemas.has[k])
                  => prepared.data.m[k] = props.data.m[k]
            /\ (props.schemas.given /\ props.schemas.has[k]) =>
                  \A pair \in C19_Objects(props.data.m[k], prepared.data.m[k]) :
                      /\ C20_FieldsKept(pair[1], pair[2], props.schemas.of[k])
                      /\ C20_NestedKept(pair[1], pair[2], props.schemas.of[k])

\* A call that changed a declared field of an object which also has a field
\* the schema does not declare, next to a key without a schema.
C20_Witness ==
    /\ C19_SchemasApplied
    /\ props.kind = "applySchemas"
    /\ props.schemas.has["team"]
    /\ props.data.m["team"].t = "object"
    /\ props.data.m["team"].f["extra"] = DataVal("string", "z", NoLeaves, <<>>)
    /\ prepared.data.m["team"].f["extra"] = DataVal("string", "z", NoLeaves, <<>>)
    /\ prepared.data.m["team"].f["status"] # props.data.m["team"].f["status"]
    /\ props.data.m["news"].t = "object"
    /\ prepared.data.m["news"] = props.data.m["news"]

\* The content a call returned, given back as a parsed content.
C21_AsParsed(c) ==
    ContentObject(c.title, c.paragraphs, c.data,
        ItemsOf("array", "[]",
            [i \in 1..Len(c.items) |->
                ContentObject(c.items[i].title, c.items[i].paragraphs, c.items[i].data,
                              ItemsOf("value", "undefined", <<>>))]))

\* What a second, equal call returns, and what a call on the returned
\* content or data returns with the same schemas.
C21_Stable ==
    (prepared.done /\ ~prepared.threw) =>
        /\ props.kind = "guaranteeContentStructure" =>
              /\ GuaranteeContentStructure(props.content) = prepared.content
              /\ GuaranteeContentStructure(C21_AsParsed(prepared.content)) = prepared.content
        /\ props.kind = "applySchemas" =>
              /\ ApplySchemas(props.data, props.schemas) = prepared.data
              /\ ~SchemasThrow(prepared.data, props.schemas)
              /\ ApplySchemas(prepared.data, props.schemas) = prepared.data
        /\ props.kind = "prepareProps" =>
              /\ PrepareProps(props.data, props.schemas).data = prepared.data
              /\ ~PrepareProps(prepared.data, props.schemas).threw
              /\ PrepareProps(prepared.data, props.schemas).data = prepared.data

C22_Picked(m) ==
    LET w == WebsiteLangs(localized.config)
        lang == IF localized.givenLang # "" THEN localized.givenLang ELSE w.activeLang
        defaultLang == IF Len(w.langs) > 0 THEN w.langs[1] ELSE "en"
    IN  IF m[lang] \notin {"<undefined>", ""} THEN m[lang]
        ELSE IF localized.fallback /\ m[defaultLang] \notin {"<undefined>", ""}
             THEN m[defaultLang]
             ELSE localized.defaultVal

\* C22 as stated: localize returns every plain string unchanged, and for a
\* mapping by language, or the JSON encoding of one, the entry of the
\* requested (else the active) language, else the default language's entry
\* when fallbackToDefaultLang is set, else defaultValue.
C22_LocalizeAsStated ==
    localized.done =>
        /\ localized.val.kind = "string" => localized.result = localized.val.s
        /\ localized.val.kind \in {"object", "json"} =>
              localized.result = C22_Picked(localized.val.m)

\* C22, amended: a string that is the JSON encoding of a string is returned
\* decoded; every other string that is not the encoding of a mapping is
\* returned unchanged; mappings as stated.
C22_LocalizeDecodesJson ==
    localized.done =>
        /\ localized.val.kind = "string" =>
              localized.result = IF localized.val.s = "\"Hello\"" THEN "Hello"
                                 ELSE localized.val.s
        /\ localized.val.kind \in {"object", "json"} =>
              localized.result = C22_Picked(localized.val.m)

\* The JSON encoding of a mapping without an entry for the requested
\* language de, localized with the fallback to the default language fr.
C22_Witness ==
    /\ localized.done
    /\ localized.val.kind = "json"
    /\ localized.givenLang = "de"
    /\ localized.fallback
    /\ localized.config.languages = <<"fr", "en">>
    /\ localized.val.m = [en |-> "Hello", fr |-> "Bonjour", de |-> "<undefined>"]
    /\ localized.result = "Bonjour"

\* C23: a Section whose component name the foundation does not resolve
\* raises no error and renders as the placeholder, its start state and state
\* stay unset, and the other Sections of the areas are initialized by Layout
\* and can render: the unresolved Section does not abort the page.
C23_UnresolvedIsIsolated ==
    \A b \in PageBlocks(page) :
        GetComponent(blocks[b].component) = NoComponent =>
            /\ blocks[b].view \in {"none", "placeholder"}
            /\ blocks[b].rendered => blocks[b].view = "placeholder"
            /\ blocks[b].startState = NullState
            /\ blocks[b].state = NullState
            /\ laidOut =>
                  /\ \A c \in AreaBlocks(page) : blocks[c].initCalled
                  /\ \A c \in PlacedBlocks(page) : MayRender(c)

\* The unresolved Section rendered, reset, and a Section next to it rendered
\* its component.
C23_Witness ==
    /\ "1" \in PageBlocks(page)
    /\ blocks["1"].view = "placeholder"
    /\ blocks["0"].view = "component"
    /\ lastOp = [op |-> "initState", block |-> "1"]

\* C24: the header and footer Sections are referenced, not copied, by each
\* Page: every Page of the Website yields the same header instance and the
\* same footer instance, so a state change of the header or footer made
\* while one Page is shown is observed on every other Page.
C24_HeaderFooterShared ==
    \A p, q \in 1..Len(tree.pages) :
        /\ tree.pages[p].header = tree.pages[q].header
        /\ tree.pages[p].footer = tree.pages[q].footer
        /\ tree.pages[p].header # 0 =>
               tree.heap[tree.pages[p].header].state = tree.heap[tree.pages[q].header].state
        /\ tree.pages[p].footer # 0 =>
               tree.heap[tree.pages[p].footer].state = tree.heap[tree.pages[q].footer].state

\* The Blocks of the subtree of the Block ref, itself included.
RECURSIVE C25_Subtree(_)
C25_Subtree(ref) ==
    {ref} \cup UNION {C25_Subtree(tree.heap[ref].childBlocks[i]) :
                         i \in 1..Len(tree.heap[ref].childBlocks)}

\* The Blocks of the Page p: its header, body and footer, with their subtrees.
C25_PageBlocks(p) ==
    UNION {C25_Subtree(r) :
             r \in ({tree.pages[p].header, tree.pages[p].footer} \ {0})
                    \cup {tree.pages[p].body[i] : i \in 1..Len(tree.pages[p].body)}}

\* The subsections of the section of the content that the Block ref of the
\* Page p was built from, found by the Block's place in the Page.
RECURSIVE C25_SectionOf(_, _, _)
C25_SectionOf(ref, root, section) ==
    IF ref = root THEN section
    ELSE LET kids == tree.heap[root].childBlocks
             i    == CHOOSE j \in 1..Len(kids) : ref \in C25_Subtree(kids[j])
         IN  C25_SectionOf(ref, kids[i], section[i])

\* C25: every Block has all its child Blocks, one per subsection of its
\* section and each built with its own subtree before the next (depth
\* first); the id of a child is the id of its parent, "_" and its position;
\* the ids of the Blocks of one Page are pairwise distinct; and building
\* the Website again from the same content gives every Block the same id.
C25_IdsAreStructural ==
    /\ \A p \in 1..Len(tree.pages) :
          /\ \A a, b \in C25_PageBlocks(p) : a # b => tree.heap[a].id # tree.heap[b].id
          /\ \A i \in 1..Len(tree.pages[p].body) :
                /\ tree.heap[tree.pages[p].body[i]].id = ToString(i - 1)
                /\ Len(tree.heap[tree.pages[p].body[i]].childBlocks)
                       = Len(tree.content.pages[p][i])
                /\ \A a \in C25_Subtree(tree.pages[p].body[i]) :
                      Len(tree.heap[a].childBlocks)
                         = Len(C25_SectionOf(a, tree.pages[p].body[i],
                                             tree.content.pages[p][i]))
    /\ \A a \in 1..Len(tree.heap) :
          LET kids == tree.heap[a].childBlocks
          IN  \A i \in 1..Len(kids) :
                 /\ tree.heap[kids[i]].id = tree.heap[a].id \o "_" \o ToString(i - 1)
                 /\ kids[i] > a
                 /\ i > 1 => \A d \in C25_Subtree(kids[i - 1]) : d < kids[i]
    /\ LET again == BuildPages(tree.content, 1, <<>>, <<>>)
       IN  /\ again.pages = tree.pages
           /\ \A a \in 1..Len(tree.heap) :
                 /\ again.heap[a].id = tree.heap[a].id
                 /\ again.heap[a].childBlocks = tree.heap[a].childBlocks

\* A Website whose first Page has a header and two Sections with nested
\* subsections, the Blocks 0_1_0 and 1_1_0, while the state of a Block of
\* another Page is set.
C25_Witness ==
    /\ \E a, b \in 1..Len(tree.heap) :
          /\ tree.heap[a].id = "0_1_0"
          /\ tree.heap[b].id = "1_1_0"
          /\ {a, b} \subseteq C25_PageBlocks(1)
    /\ tree.pages[1].header # 0
    /\ tree.heap[tree.pages[1].header].state = NullState
    /\ \E r \in 1..Len(tree.heap) : tree.heap[r].state # NullState

\* What initRuntime has done includes the step e.
C26_Did(e) == \E i \in 1..Len(boot.did) : boot.did[i] = e

\* The application is rendered only as the last of, in this order: site
\* configuration found, setupUniweb, registerFoundation, the loads of all
\* declared extensions settled (the fulfilled ones registered), active page
\* set; and without a site configuration nothing is done.
C26_RenderedLast ==
    /\ C26_Did("render") =>
          /\ boot.did = <<"configData", "setupUniweb", "registerFoundation">>
                          \o (IF boot.extensions = <<>> THEN <<>> ELSE <<"loadExtensions">>)
                          \o <<"setActivePage", "render">>
          /\ \A i \in 1..Len(boot.extensions) :
                boot.ext[boot.extensions[i]] \in {"fulfilled", "rejected"}
          /\ \A e \in Extensions :
                (\E i \in 1..Len(boot.registered) : boot.registered[i] = e)
                   <=> boot.ext[e] = "fulfilled"
    /\ ~boot.configData => boot.did = <<>>

\* C26 as stated: the order above, and when the foundation fails to load the
\* error view is rendered and initRuntime returns.
C26_InitRuntimeAsStated ==
    /\ C26_RenderedLast
    /\ boot.failed =>
          /\ boot.pc = "returned"
          /\ boot.did = <<"configData", "setupUniweb", "errorView">>

\* C26: the order above; when the foundation fails to load initRuntime
\* returns without rendering the application, and it has rendered the error
\* view if and only if the document has the root element; without the root
\* element the application is not rendered either.
C26_InitRuntimeOrdered ==
    /\ C26_RenderedLast
    /\ boot.failed =>
          /\ boot.pc = "returned"
          /\ boot.did = <<"configData", "setupUniweb">>
                          \o (IF boot.container THEN <<"errorView">> ELSE <<>>)
    /\ ~boot.container => ~C26_Did("render") /\ ~C26_Did("errorView")

\* The application rendered after two declared extensions settled, the
\* first rejected and the second registered.
C26_Witness ==
    /\ boot.pc = "returned"
    /\ C26_Did("render")
    /\ boot.source = "url"
    /\ boot.extensions = <<"e1", "e2">>
    /\ boot.ext = [e \in Extensions |-> IF e = "e1" THEN "rejected" ELSE "fulfilled"]
    /\ boot.registered = <<"e2">>

\* What holds of a render of PageRenderer, from the Website before it to the
\* Website and the view after it.
C27_Rendered ==
    LET path  == view'.path
        found == GetPage(website, path)
    IN  IF found # 0
        THEN /\ website'.activePage = found
             /\ website'.pages[website'.activePage].route = path
             /\ view' = [kind |-> "layout", page |-> website'.activePage, path |-> path]
        ELSE /\ website' = website
             /\ view' = [kind |-> "notFound", page |-> 0, path |-> path]

\* C27: a render of PageRenderer at a path that matches a page leaves that
\* page active and returns its Layout, so the Sections rendered by the
\* Layout see it as the active page; at a path that matches no page it
\* returns the not-found view, of no page, and leaves the Website, its
\* active page included, unchanged.
C27_ActivePageSetInRender == [][PageRenderer => C27_Rendered]_vars

\* A render of "/about" made while "/" was the active page.
C27_Witness ==
    /\ view.kind = "layout"
    /\ view.path = "/about"
    /\ website.activePage = view.page
    /\ before.activePage # website.activePage
    /\ before.activePage # 0
    /\ before.pages[before.activePage].route = "/"

\* The number of places that hold the tracked event e: entries of the queue,
\* batches in flight with it, and the delivered events.
C28_Places(e) ==
    Cardinality({i \in 1..Len(analytics.queue) : analytics.queue[i] = e})
    + Cardinality({b \in analytics.inFlight : \E i \in 1..Len(b) : b[i] = e})
    + (IF e \in analytics.delivered THEN 1 ELSE 0)

\* C28: with analytics enabled, every tracked event is in exactly one of the
\* queue, one batch in flight and the delivered events, whatever the order
\* of tracking, flushes and settling fetches; and a batch whose fetch fails
\* is put back at the front of the queue.
C28_NoEventLostOrDuplicated ==
    /\ [](analytics.enabled => \A e \in 1..analytics.tracked : C28_Places(e) = 1)
    /\ [][\A batch \in analytics.inFlight :
             analytics' = SettleBatch(analytics, batch, "rejected")
                => analytics'.queue = batch \o analytics.queue]_vars

\* C29: at most one foundation build is in progress, and isBuilding tells
\* whether one is; while a build is in progress no build starts, whoever
\* asks; when a build ends, with or without success, isBuilding is cleared;
\* and a rebuild timeout that fires while no build is in progress starts one.
C29_OneBuildAtATime ==
    /\ [](plugin.running <= 1 /\ (plugin.isBuilding <=> plugin.running = 1))
    /\ [][/\ plugin.isBuilding => plugin'.started = plugin.started
          /\ plugin'.running < plugin.running => ~plugin'.isBuilding
          /\ (plugin.rebuildTimeout /\ ~plugin'.rebuildTimeout /\ ~plugin.isBuilding)
                => (plugin'.isBuilding /\ plugin'.started = plugin.started + 1)]_vars

\* A build in progress that was started by a rebuild timeout after an
\* earlier build had failed and a request made during it had been dropped.
C29_Witness ==
    /\ plugin.isBuilding
    /\ plugin.lastBuild = "failed"
    /\ plugin.started = 2
    /\ plugin.hooks = 2
    /\ plugin.changes = 1

\* C30: with watching enabled, every change of a foundation source file is
\* eventually followed by the end of a build that started after the change.
C30_ChangeIsEventuallyBuilt == plugin.stale ~> ~plugin.stale

====
